---- MODULE Spec2Model ----
(***************************************************************************)
(* A model of cat-ccnotify-hook: the environment detector, the adaptive    *)
(* notifier, the content classifier, the notification hook and the stop    *)
(* hook.                                                                   *)
(*                                                                         *)
(* JavaScript strings are sequences of one-character strings; characters   *)
(* that have no ASCII spelling carry a name ("SOH", "VT", "U+2705", ...).  *)
(* The JavaScript value undefined is the string Undefined; the three       *)
(* states of a stream's isTTY are "true", "false" and Undefined.           *)
(***************************************************************************)
EXTENDS Integers, Sequences, FiniteSets, TLC

VARIABLES
  \* ---- lib/environment-detector.js -------------------------------------
  platform,                  \* os.platform()
  env,                       \* process.env, restricted to the variables read
  stdoutIsTTY,               \* process.stdout.isTTY
  stdinIsTTY,                \* process.stdin.isTTY
  commandsOnPath,            \* the commands `command -v` resolves
  notificationCapabilities,  \* EnvironmentDetector.notificationCapabilities
  terminalInfo,              \* EnvironmentDetector.terminalInfo (the fields read)
  pcEnv,                     \* "new" before the constructor ran, then "constructed"
  \* ---- lib/adaptive-notifier.js ----------------------------------------
  pcN,                       \* the position of sendNotification
  nTitle,                    \* sendNotification's title argument
  nMessage,                  \* sendNotification's message argument
  parentApp,                 \* the record detectParentApp returned
  sendResult,                \* the promise sendNotification returned
  soundFileExists,           \* existsSync(soundPath)
  effects,                   \* the external calls and console lines, in order
  \* ---- hooks/notification-hook.js, hooks/stop-hook.cjs -----------------
  hookScript,                \* the hook script the process runs
  payloadEnv,                \* process.env, the notification-content variables
  stdin,                     \* what readFileSync(0) finds, with its JSON.parse result
  argv,                      \* process.argv.slice(2)
  pc,                        \* the position of the hook process
  notificationTitle,         \* main: notificationTitle / stopTitle
  notificationMessage,       \* main: notificationMessage / stopMessage
  notificationLevel,         \* main: notificationLevel
  titleSource,               \* the input channel notificationTitle was taken from
  messageSource,             \* the input channel notificationMessage was taken from
  stdinRead,                 \* whether readFileSync(0) was called
  soundType,                 \* main: the result of analyzeNotificationContent
  enhanced,                  \* main: the result of enhanceNotificationStyle
  adaptiveNotifierReady,     \* stop-hook.cjs: the dynamic import succeeded
  exitCode,                  \* the exit code of the process, "running" before
  \* ---- lib/shell-executor, called on its own -----------------------------
  shContent,                 \* the argument of the exported function
  shSanitized,               \* sanitizeNotificationContent(shContent)
  shResanitized,             \* sanitizeNotificationContent(shSanitized)
  shEscaped,                 \* escapeAppleScript(shContent)
  pcShell,                   \* which of the calls have returned
  \* ---- lib/notification-sender.js ---------------------------------------
  parentComm,                \* what `ps -p <ppid> -o comm=` prints, or its failure
  senderEnvironment,         \* sendNotificationWithTerminalNotifier: environment
  availableMethods,          \* sendNotificationWithTerminalNotifier: availableMethods
  methodIndex,               \* the position of the loop over availableMethods
  safelyIndex,               \* the position of the loop in sendNotificationSafely
  senderAttempts,            \* the methods executed so far, with their outcome
  senderResult,              \* the value the returned promise resolved with
  pcSender,                  \* the position of sendNotificationWithTerminalNotifier
  \* ---- lib/simple-parent-detector.js, EnvironmentDetector.detectParentApp -
  detectorClass,             \* the class of the detector instance
  startPid,                  \* process.ppid
  cache,                     \* SimpleParentDetector: this.cache
  currentPid,                \* detectParentApp: currentPid
  level,                     \* detectParentApp: level
  lookedUp,                  \* the ps lookups of the current call: pid and outcome
  mdlsOutcome,               \* the outcome of the mdls call of the current call
  detectCalls,               \* the number of detectParentApp calls on the instance
  firstRecord,               \* what the first call returned
  lastRecord,                \* what the latest call returned
  pcDetector,                \* the position of detectParentApp
  \* ---- scripts/install-hooks.js, scripts/uninstall-hooks.js -------------
  settingsFile,              \* ~/.claude/settings.json
  previousFile,              \* the file as the latest script run found it
  hookFilesExist,            \* existsSync of the two hook scripts
  runs                       \* the script runs so far, with their outcome

envVars == <<platform, env, stdoutIsTTY, stdinIsTTY, commandsOnPath,
             notificationCapabilities, terminalInfo, pcEnv>>

notifierVars == <<pcN, nTitle, nMessage, parentApp, sendResult, soundFileExists,
                  effects>>

hookInputs == <<hookScript, payloadEnv, stdin, argv>>

hookVars == <<hookScript, payloadEnv, stdin, argv, pc, notificationTitle, notificationMessage,
              notificationLevel, titleSource, messageSource, stdinRead,
              soundType, enhanced, adaptiveNotifierReady, exitCode>>

shellVars == <<shContent, shSanitized, shResanitized, shEscaped, pcShell>>

senderVars == <<parentComm, senderEnvironment, availableMethods, methodIndex,
                safelyIndex, senderAttempts, senderResult, pcSender>>

detectorVars == <<detectorClass, startPid, cache, currentPid, level, lookedUp,
                  mdlsOutcome, detectCalls, firstRecord, lastRecord, pcDetector>>

settingsVars == <<settingsFile, previousFile, hookFilesExist, runs>>

auxVars == <<senderVars, detectorVars, settingsVars>>

vars == <<envVars, notifierVars, hookVars, shellVars, auxVars>>

Undefined == "undefined"

\* JavaScript truthiness of a string-or-undefined value
Truthy(v) == v # Undefined /\ v # ""

(***************************************************************************)
(* JavaScript strings                                                      *)
(***************************************************************************)
\* the characters of an ASCII literal
Chars(s) == [i \in 1..Len(s) |-> SubSeq(s, i, i)]

\* undefined where a string is expected (a missing JSON field, an unset
\* environment variable, a missing argument)
UndefinedStr == <<Undefined>>

\* truthiness of a string-or-undefined value held as a character sequence
TruthyStr(v) == v # UndefinedStr /\ v # <<>>

UpperCaseLetters == Chars("ABCDEFGHIJKLMNOPQRSTUVWXYZ")
LowerCaseLetters == Chars("abcdefghijklmnopqrstuvwxyz")

toLowerCaseChar(c) ==
  IF \E i \in DOMAIN UpperCaseLetters : UpperCaseLetters[i] = c
  THEN LowerCaseLetters[CHOOSE i \in DOMAIN UpperCaseLetters : UpperCaseLetters[i] = c]
  ELSE c

\* String.prototype.toLowerCase
toLowerCase(s) == [i \in 1..Len(s) |-> toLowerCaseChar(s[i])]

\* String.prototype.includes / RegExp.prototype.test of a literal pattern
includes(s, p) ==
  \E i \in 1..(Len(s) - Len(p) + 1) : SubSeq(s, i, i + Len(p) - 1) = p

\* a || b on string-or-undefined values
Or(a, b) == IF TruthyStr(a) THEN a ELSE b

\* the control characters that occur in the inputs, with their code
ControlCharCode ==
  [c \in {"NUL", "SOH", "BS", "TAB", "LF", "VT", "FF", "CR", "ESC", "DEL"} |->
     CASE c = "NUL" -> 0   [] c = "SOH" -> 1   [] c = "BS" -> 8
       [] c = "TAB" -> 9   [] c = "LF" -> 10   [] c = "VT" -> 11
       [] c = "FF" -> 12   [] c = "CR" -> 13   [] c = "ESC" -> 27
       [] c = "DEL" -> 127]

\* the white space String.prototype.trim removes
WhiteSpaceChars == {" ", "TAB", "LF", "VT", "FF", "CR"}

RECURSIVE trimStart(_)
trimStart(s) ==
  IF s # <<>> /\ Head(s) \in WhiteSpaceChars THEN trimStart(Tail(s)) ELSE s

RECURSIVE trimEnd(_)
trimEnd(s) ==
  IF s # <<>> /\ s[Len(s)] \in WhiteSpaceChars THEN trimEnd(SubSeq(s, 1, Len(s) - 1)) ELSE s

\* String.prototype.trim
trim(s) == trimEnd(trimStart(s))

\* s.split('\n')
RECURSIVE splitLines(_)
splitLines(s) ==
  IF \A i \in DOMAIN s : s[i] # "LF" THEN <<s>>
  ELSE LET k == CHOOSE i \in DOMAIN s : s[i] = "LF" /\ \A j \in 1..(i - 1) : s[j] # "LF"
       IN <<SubSeq(s, 1, k - 1)>> \o splitLines(SubSeq(s, k + 1, Len(s)))

\* lines.join(' ')
RECURSIVE joinWithSpace(_)
joinWithSpace(lines) ==
  IF lines = <<>> THEN <<>>
  ELSE IF Len(lines) = 1 THEN lines[1]
  ELSE lines[1] \o <<" ">> \o joinWithSpace(Tail(lines))

(***************************************************************************)
(* lib/shell-executor                                                      *)
(***************************************************************************)
maxLength == 1000

\* a slip in the class: DEL is left out
isRemovedControlChar_NoDEL(c) ==
  /\ c \in DOMAIN ControlCharCode
  /\ LET n == ControlCharCode[c]
     IN n \in 0..8 \/ n \in {11, 12} \/ n \in 14..31

\* the class [\x00-\x08\x0B\x0C\x0E-\x1F\x7F]
isRemovedControlChar(c) ==
  /\ c \in DOMAIN ControlCharCode
  /\ LET n == ControlCharCode[c]
     IN n \in 0..8 \/ n \in {11, 12} \/ n \in 14..31 \/ n = 127

keepsChar(c) == ~isRemovedControlChar(c)

\* a slip in the order: the content is cut before the characters are removed
sanitizeNotificationContent_CutFirst(content) ==
  IF content = UndefinedStr THEN <<>>
  ELSE IF Len(content) > maxLength
       THEN SelectSeq(SubSeq(content, 1, maxLength), keepsChar) \o Chars("...")
       ELSE SelectSeq(content, keepsChar)

sanitizeNotificationContent(content) ==
  IF content = UndefinedStr THEN <<>>
  ELSE LET sanitized == SelectSeq(content, keepsChar)
       IN IF Len(sanitized) > maxLength
          THEN SubSeq(sanitized, 1, maxLength) \o Chars("...")
          ELSE sanitized

\* str.replace(/ch/g, replacement) on the characters lo..hi of str
RECURSIVE replaceRange(_, _, _, _, _)
replaceRange(str, ch, replacement, lo, hi) ==
  IF lo > hi THEN <<>>
  ELSE IF lo = hi THEN (IF str[lo] = ch THEN replacement ELSE <<str[lo]>>)
  ELSE LET mid == (lo + hi) \div 2
       IN replaceRange(str, ch, replacement, lo, mid)
            \o replaceRange(str, ch, replacement, mid + 1, hi)

replaceAll(str, ch, replacement) == replaceRange(str, ch, replacement, 1, Len(str))

\* a slip in the order of the replacements: the quotes before the backslashes
escapeAppleScript_QuotesFirst(str) ==
  IF str = UndefinedStr THEN <<>>
  ELSE CHOOSE result \in
         {replaceAll(s4, "TAB", <<"\\", "t">>) :
            s4 \in {replaceAll(s3, "CR", <<"\\", "r">>) :
              s3 \in {replaceAll(s2, "LF", <<"\\", "n">>) :
                s2 \in {replaceAll(s1, "\\", <<"\\", "\\">>) :
                  s1 \in {replaceAll(str, "\"", <<"\\", "\"">>)}}}}} : TRUE

\* the five replacements, each applied to the result of the one before
escapeAppleScript(str) ==
  IF str = UndefinedStr THEN <<>>
  ELSE CHOOSE result \in
         {replaceAll(s4, "TAB", <<"\\", "t">>) :
            s4 \in {replaceAll(s3, "CR", <<"\\", "r">>) :
              s3 \in {replaceAll(s2, "LF", <<"\\", "n">>) :
                s2 \in {replaceAll(s1, "\"", <<"\\", "\"">>) :
                  s1 \in {replaceAll(str, "\\", <<"\\", "\\">>)}}}}} : TRUE

\* the code points of the non-ASCII characters that occur in the source
CodePoint ==
  [c \in {"U+23F3", "U+26A0", "U+2705", "U+2728", "U+274C", "U+FE0F",
          "U+1F389", "U+1F3D7", "U+1F431", "U+1F4A1", "U+1F4A5", "U+1F4C1",
          "U+1F4C4", "U+1F4CA", "U+1F4CB", "U+1F4DD", "U+1F4E2", "U+1F4E6",
          "U+1F500", "U+1F504", "U+1F514", "U+1F680", "U+1F6A8", "U+1F9EA"} |->
     CASE c = "U+23F3" -> 9203     [] c = "U+26A0" -> 9888
       [] c = "U+2705" -> 9989     [] c = "U+2728" -> 10024
       [] c = "U+274C" -> 10060    [] c = "U+FE0F" -> 65039
       [] c = "U+1F389" -> 127881  [] c = "U+1F3D7" -> 127959
       [] c = "U+1F431" -> 128049  [] c = "U+1F4A1" -> 128161
       [] c = "U+1F4A5" -> 128165  [] c = "U+1F4C1" -> 128193
       [] c = "U+1F4C4" -> 128196  [] c = "U+1F4CA" -> 128202
       [] c = "U+1F4CB" -> 128203  [] c = "U+1F4DD" -> 128221
       [] c = "U+1F4E2" -> 128226  [] c = "U+1F4E6" -> 128230
       [] c = "U+1F500" -> 128256  [] c = "U+1F504" -> 128260
       [] c = "U+1F514" -> 128276  [] c = "U+1F680" -> 128640
       [] c = "U+1F6A8" -> 128680  [] c = "U+1F9EA" -> 129514]

(***************************************************************************)
(* Content classifier (hooks/notification-hook.js)                         *)
(***************************************************************************)
patterns == <<
  [category |-> "error", categoryPatterns |-> <<
     Chars("error"), Chars("failed"), Chars("failure"), Chars("crash"),
     Chars("exception"), Chars("fatal"), <<"U+274C">>, <<"U+1F6A8">>,
     <<"U+1F4A5">>, Chars("broken"), Chars("cannot"), Chars("unable"),
     Chars("invalid")>>],
  [category |-> "warning", categoryPatterns |-> <<
     Chars("warning"), Chars("caution"), Chars("attention"), Chars("notice"),
     Chars("deprecated"), <<"U+26A0", "U+FE0F">>, <<"U+1F514">>,
     <<"U+1F4E2">>, Chars("might"), Chars("should"), Chars("consider")>>],
  [category |-> "success", categoryPatterns |-> <<
     Chars("complete"), Chars("success"), Chars("passed"), Chars("done"),
     Chars("finished"), Chars("created"), <<"U+2705">>, <<"U+1F389">>,
     <<"U+2728">>, Chars("deployed"), Chars("published"), Chars("installed"),
     Chars("ready")>>],
  [category |-> "progress", categoryPatterns |-> <<
     Chars("progress"), Chars("running"), Chars("processing"),
     Chars("installing"), Chars("building"), Chars("loading"),
     Chars("starting"), Chars("initializing"), <<"U+1F4CA">>, <<"U+23F3">>,
     <<"U+1F504">> >>],
  [category |-> "git", categoryPatterns |-> <<
     Chars("git"), Chars("commit"), Chars("push"), Chars("pull"),
     Chars("merge"), Chars("branch"), Chars("checkout"), <<"U+1F4DD">>,
     <<"U+1F500">>, <<"U+1F4CB">>, Chars("repository"), Chars("repo")>>],
  [category |-> "build", categoryPatterns |-> <<
     Chars("build"), Chars("compile"), Chars("bundle"), Chars("webpack"),
     Chars("rollup"), Chars("vite"), <<"U+1F3D7", "U+FE0F">>, <<"U+1F4E6">>,
     Chars("typescript"), Chars("babel")>>],
  [category |-> "test", categoryPatterns |-> <<
     Chars("test"), Chars("spec"), Chars("jest"), Chars("vitest"),
     Chars("cypress"), Chars("mocha"), Chars("jasmine"), <<"U+1F9EA">>,
     Chars("coverage"), Chars("assertion")>>],
  [category |-> "deploy", categoryPatterns |-> <<
     Chars("deploy"), Chars("publish"), Chars("release"),
     Chars("production"), Chars("staging"), <<"U+1F680">>, Chars("live"),
     Chars("server")>>],
  [category |-> "npm", categoryPatterns |-> <<
     Chars("npm"), Chars("yarn"), Chars("pnpm"), Chars("package"),
     Chars("dependency"), Chars("node_modules"), <<"U+1F4E6">>,
     Chars("install"), Chars("update")>>],
  [category |-> "file", categoryPatterns |-> <<
     Chars("file"), Chars("directory"), Chars("folder"), Chars("path"),
     Chars("write"), Chars("read"), Chars("save"), <<"U+1F4C4">>,
     <<"U+1F4C1">>, Chars("created"), Chars("modified"), Chars("deleted")>>]>>

\* patterns.error / patterns.success
patternsOf(category) ==
  patterns[CHOOSE i \in DOMAIN patterns : patterns[i].category = category].categoryPatterns

\* categoryPatterns.some(pattern => pattern.test(content))
somePatternMatches(categoryPatterns, content) ==
  \E k \in DOMAIN categoryPatterns : includes(content, categoryPatterns[k])

processCategories == {"test", "build", "git", "deploy", "npm"}

\* a slip in the override: everything that is not an error counts as success
analyzeNotificationContent_OverrideAlwaysDecides(title, message) ==
  LET content == toLowerCase(title \o <<" ">> \o message)
      matching == {i \in DOMAIN patterns :
                     somePatternMatches(patterns[i].categoryPatterns, content)}
  IN IF matching = {} THEN "info"
     ELSE LET first == CHOOSE i \in matching : \A j \in matching : i <= j
              category == patterns[first].category
          IN IF category \in processCategories
             THEN IF somePatternMatches(patternsOf("error"), content) THEN "error"
                  ELSE "success"
             ELSE category

\* a slip in the loop: the success patterns are tried before the error ones
analyzeNotificationContent_SuccessFirst(title, message) ==
  LET content == toLowerCase(title \o <<" ">> \o message)
      order == <<3, 1, 2, 4, 5, 6, 7, 8, 9, 10>>
      matching == {k \in DOMAIN order :
                     somePatternMatches(patterns[order[k]].categoryPatterns, content)}
  IN IF matching = {} THEN "info"
     ELSE LET first == CHOOSE k \in matching : \A j \in matching : k <= j
          IN patterns[order[first]].category

analyzeNotificationContent(title, message) ==
  LET content == toLowerCase(title \o <<" ">> \o message)
      \* the entries of the loop whose test succeeds; the loop returns at the
      \* first of them
      matching == {i \in DOMAIN patterns :
                     somePatternMatches(patterns[i].categoryPatterns, content)}
  IN IF matching = {} THEN "info"
     ELSE LET first == CHOOSE i \in matching : \A j \in matching : i <= j
              category == patterns[first].category
          IN IF category \in processCategories
             THEN IF somePatternMatches(patternsOf("error"), content) THEN "error"
                  ELSE IF somePatternMatches(patternsOf("success"), content) THEN "success"
                  ELSE category
             ELSE category

(***************************************************************************)
(* EnvironmentDetector                                                     *)
(***************************************************************************)
ciIndicators ==
  <<"CI", "CONTINUOUS_INTEGRATION", "BUILD_NUMBER", "JENKINS_URL",
    "GITHUB_ACTIONS", "GITLAB_CI", "CIRCLECI", "TRAVIS", "APPVEYOR",
    "AZURE_PIPELINES", "TEAMCITY_VERSION">>

Range(s) == {s[i] : i \in DOMAIN s}

SSHVarNames == {"SSH_CONNECTION", "DISPLAY", "SSH_TTY", "SSH_CLIENT"}

EnvNames ==
  {"CAT_CCNOTIFY_FORCE_CONSOLE", "CAT_CCNOTIFY_DEBUG", "TERM_PROGRAM"} \cup SSHVarNames \cup Range(ciIndicators)

NotifierCommands == {"osascript", "terminal-notifier", "alerter", "notify-send"}
SoundCommands == {"afplay", "say", "espeak"}

commandExists(cmd) == cmd \in commandsOnPath

isSSHConnection ==
  IF Truthy(env["SSH_CONNECTION"]) /\ ~Truthy(env["DISPLAY"]) THEN TRUE
  ELSE IF Truthy(env["SSH_CONNECTION"]) /\ Truthy(env["SSH_TTY"]) THEN TRUE
  ELSE IF Truthy(env["SSH_CLIENT"]) THEN TRUE
  ELSE FALSE

isCIEnvironment ==
  \E i \in DOMAIN ciIndicators : Truthy(env[ciIndicators[i]])

isNonTTYEnvironment_UnsetIsNonTTY ==
  IF stdoutIsTTY # "true" THEN TRUE
  ELSE IF stdinIsTTY # "true" THEN TRUE
  ELSE FALSE

isNonTTYEnvironment ==
  IF stdoutIsTTY = "false" THEN TRUE
  ELSE IF stdinIsTTY = "false" THEN TRUE
  ELSE FALSE

shouldForceConsole_NoTTYCheck ==
  IF isSSHConnection THEN TRUE
  ELSE IF isCIEnvironment THEN TRUE
  ELSE FALSE

shouldForceConsole ==
  IF isSSHConnection THEN TRUE
  ELSE IF isCIEnvironment THEN TRUE
  ELSE IF isNonTTYEnvironment THEN TRUE
  ELSE FALSE

getBestNotificationMethod_NoOverride(capabilities) ==
  IF shouldForceConsole THEN "console"
  ELSE IF platform = "darwin" /\ capabilities.hasAlerter THEN "alerter"
  ELSE IF platform = "darwin" /\ capabilities.hasTerminalNotifier THEN "terminal-notifier"
  ELSE IF platform = "darwin" /\ capabilities.hasOsascript THEN "osascript"
  ELSE IF platform = "linux" /\ capabilities.hasNotifySend THEN "notify-send"
  ELSE IF platform = "win32" THEN "powershell"
  ELSE "console"

getBestNotificationMethod_NoSSH(capabilities) ==
  IF env["CAT_CCNOTIFY_FORCE_CONSOLE"] = "true" THEN "console"
  ELSE IF isCIEnvironment \/ isNonTTYEnvironment THEN "console"
  ELSE IF platform = "darwin" /\ capabilities.hasAlerter THEN "alerter"
  ELSE IF platform = "darwin" /\ capabilities.hasTerminalNotifier THEN "terminal-notifier"
  ELSE IF platform = "darwin" /\ capabilities.hasOsascript THEN "osascript"
  ELSE IF platform = "linux" /\ capabilities.hasNotifySend THEN "notify-send"
  ELSE IF platform = "win32" THEN "powershell"
  ELSE "console"

getBestNotificationMethod_NoCI(capabilities) ==
  IF env["CAT_CCNOTIFY_FORCE_CONSOLE"] = "true" THEN "console"
  ELSE IF isSSHConnection \/ isNonTTYEnvironment THEN "console"
  ELSE IF platform = "darwin" /\ capabilities.hasAlerter THEN "alerter"
  ELSE IF platform = "darwin" /\ capabilities.hasTerminalNotifier THEN "terminal-notifier"
  ELSE IF platform = "darwin" /\ capabilities.hasOsascript THEN "osascript"
  ELSE IF platform = "linux" /\ capabilities.hasNotifySend THEN "notify-send"
  ELSE IF platform = "win32" THEN "powershell"
  ELSE "console"

getBestNotificationMethod_TerminalNotifierFirst(capabilities) ==
  IF env["CAT_CCNOTIFY_FORCE_CONSOLE"] = "true" THEN "console"
  ELSE IF shouldForceConsole THEN "console"
  ELSE IF platform = "darwin" /\ capabilities.hasTerminalNotifier THEN "terminal-notifier"
  ELSE IF platform = "darwin" /\ capabilities.hasAlerter THEN "alerter"
  ELSE IF platform = "darwin" /\ capabilities.hasOsascript THEN "osascript"
  ELSE IF platform = "linux" /\ capabilities.hasNotifySend THEN "notify-send"
  ELSE IF platform = "win32" THEN "powershell"
  ELSE "console"

getBestNotificationMethod(capabilities) ==
  IF env["CAT_CCNOTIFY_FORCE_CONSOLE"] = "true" THEN "console"
  ELSE IF shouldForceConsole THEN "console"
  ELSE IF platform = "darwin" /\ capabilities.hasAlerter THEN "alerter"
  ELSE IF platform = "darwin" /\ capabilities.hasTerminalNotifier THEN "terminal-notifier"
  ELSE IF platform = "darwin" /\ capabilities.hasOsascript THEN "osascript"
  ELSE IF platform = "linux" /\ capabilities.hasNotifySend THEN "notify-send"
  ELSE IF platform = "win32" THEN "powershell"
  ELSE "console"

getBestSoundMethod(capabilities) ==
  IF platform = "darwin" /\ capabilities.hasAfplay THEN "afplay"
  ELSE IF platform = "darwin" /\ capabilities.hasSay THEN "say"
  ELSE IF platform = "linux" /\ capabilities.hasEspeak THEN "espeak"
  ELSE IF platform = "win32" THEN "powershell"
  ELSE "none"

detectNotificationCapabilities ==
  LET capabilities ==
        [hasOsascript        |-> commandExists("osascript"),
         hasTerminalNotifier |-> commandExists("terminal-notifier"),
         hasAlerter          |-> commandExists("alerter"),
         hasNotifySend       |-> commandExists("notify-send"),
         hasAfplay           |-> commandExists("afplay"),
         hasSay              |-> commandExists("say"),
         hasEspeak           |-> commandExists("espeak")]
  IN [hasOsascript           |-> capabilities.hasOsascript,
      hasTerminalNotifier    |-> capabilities.hasTerminalNotifier,
      hasAlerter             |-> capabilities.hasAlerter,
      hasNotifySend          |-> capabilities.hasNotifySend,
      hasAfplay              |-> capabilities.hasAfplay,
      hasSay                 |-> capabilities.hasSay,
      hasEspeak              |-> capabilities.hasEspeak,
      bestNotificationMethod |-> getBestNotificationMethod(capabilities),
      bestSoundMethod        |-> getBestSoundMethod(capabilities)]

detectTerminalEnvironment ==
  [termProgram |-> env["TERM_PROGRAM"],
   isITerm2    |-> env["TERM_PROGRAM"] = "iTerm.app",
   isVSCode    |-> env["TERM_PROGRAM"] = "vscode"]

NoTerminalInfo == [termProgram |-> Undefined, isITerm2 |-> FALSE, isVSCode |-> FALSE]

\* the record before the constructor has filled it
NoCapabilities ==
  [hasOsascript |-> FALSE, hasTerminalNotifier |-> FALSE, hasAlerter |-> FALSE,
   hasNotifySend |-> FALSE, hasAfplay |-> FALSE, hasSay |-> FALSE,
   hasEspeak |-> FALSE, bestNotificationMethod |-> Undefined,
   bestSoundMethod |-> Undefined]

(***************************************************************************)
(* The inputs of a hook process                                            *)
(***************************************************************************)
PayloadEnvNames ==
  {"CLAUDE_NOTIFICATION", "NOTIFICATION_MESSAGE", "HOOK_MESSAGE",
   "CLAUDE_TITLE", "NOTIFICATION_TITLE", "HOOK_TITLE"}

NoPayloadEnv == [n \in PayloadEnvNames |-> UndefinedStr]

\* the fields of the JSON input the hooks read, in the order they are written
JsonFieldOrder ==
  <<"title", "summary", "name", "header", "message", "body", "content", "text",
    "description", "level", "type", "severity", "stop_hook_active",
    "session_id", "transcript_path">>

JsonFields == {JsonFieldOrder[i] : i \in DOMAIN JsonFieldOrder}

NoFields == [f \in JsonFields |-> UndefinedStr]

\* the JSON booleans
TrueValue == <<"true-boolean">>
FalseValue == <<"false-boolean">>

\* what JSON.parse returns: an object, null, or an exception ("invalid")
JsonObject(fields) == [type |-> "object", fields |-> fields]
JsonNull == [type |-> "null", fields |-> NoFields]
NotJson == [type |-> "invalid", fields |-> NoFields]

\* the escapes JSON.stringify writes inside a string
escapeJsonChar(c) ==
  CASE c = "\"" -> <<"\\", "\"">>
    [] c = "\\" -> <<"\\", "\\">>
    [] c = "BS"  -> <<"\\", "b">>
    [] c = "TAB" -> <<"\\", "t">>
    [] c = "LF"  -> <<"\\", "n">>
    [] c = "FF"  -> <<"\\", "f">>
    [] c = "CR"  -> <<"\\", "r">>
    [] c = "NUL" -> Chars("\\u0000")
    [] c = "SOH" -> Chars("\\u0001")
    [] c = "VT"  -> Chars("\\u000b")
    [] c = "ESC" -> Chars("\\u001b")
    [] OTHER     -> <<c>>

\* the escapes of the characters lo..hi of v, concatenated
RECURSIVE escapeJsonRange(_, _, _)
escapeJsonRange(v, lo, hi) ==
  IF lo > hi THEN <<>>
  ELSE IF lo = hi THEN escapeJsonChar(v[lo])
  ELSE LET mid == (lo + hi) \div 2
       IN escapeJsonRange(v, lo, mid) \o escapeJsonRange(v, mid + 1, hi)

escapeJson(v) == escapeJsonRange(v, 1, Len(v))

renderValue(v) ==
  IF v = TrueValue THEN Chars("true")
  ELSE IF v = FalseValue THEN Chars("false")
  ELSE <<"\"">> \o escapeJson(v) \o <<"\"">>

RECURSIVE renderFields(_, _, _)
renderFields(fields, i, first) ==
  IF i > Len(JsonFieldOrder) THEN <<>>
  ELSE LET f == JsonFieldOrder[i]
       IN IF fields[f] = UndefinedStr THEN renderFields(fields, i + 1, first)
          ELSE (IF first THEN <<>> ELSE <<",">>)
                 \o <<"\"">> \o Chars(f) \o <<"\"", ":">> \o renderValue(fields[f])
                 \o renderFields(fields, i + 1, FALSE)

\* JSON.stringify(data)
JSONstringify(data) ==
  IF data.type = "null" THEN Chars("null")
  ELSE <<"{">> \o renderFields(data.fields, 1, TRUE) \o <<"}">>

\* standard input: whether it can be read, its text, and what JSON.parse
\* makes of the text
JsonStdin(data) == [readable |-> TRUE, raw |-> JSONstringify(data), json |-> data]
TextStdin(text) == [readable |-> TRUE, raw |-> text, json |-> NotJson]
EmptyStdin == TextStdin(<<>>)
UnreadableStdin == [readable |-> FALSE, raw |-> <<>>, json |-> NotJson]

NoEnhanced == [title |-> <<>>, message |-> <<>>, sound |-> Undefined]

\* sendNotification has not been called
NoResult == [state |-> "none", success |-> FALSE, method |-> Undefined]
NoParentApp == [name |-> Undefined, bundleId |-> Undefined]

\* no function of the shell executor is being called on its own
NotCalled == <<"not called">>

SenderIdle ==
  /\ parentComm = <<>>
  /\ senderEnvironment = "undetected"
  /\ availableMethods = <<>>
  /\ methodIndex = 0
  /\ safelyIndex = 0
  /\ senderAttempts = <<>>
  /\ senderResult = "none"
  /\ pcSender = "idle"

\* no record: null in this.cache, nothing returned yet
NoRecord == [name |-> <<>>, bundleId |-> "null", type |-> "none", pid |-> 0]

DetectorIdle ==
  /\ detectorClass = "none"
  /\ startPid = 0
  /\ cache = NoRecord
  /\ currentPid = 0
  /\ level = 0
  /\ lookedUp = <<>>
  /\ mdlsOutcome = "none"
  /\ detectCalls = 0
  /\ firstRecord = NoRecord
  /\ lastRecord = NoRecord
  /\ pcDetector = "idle"

\* the parsed content of a settings file: the top-level keys other than
\* hooks with their values, and the hooks object as its entries in order
EmptySettings == [other |-> <<>>, hasHooks |-> FALSE, hooks |-> <<>>]

AbsentFile == [state |-> "absent", value |-> EmptySettings]

SettingsIdle ==
  /\ settingsFile = AbsentFile
  /\ previousFile = AbsentFile
  /\ hookFilesExist = FALSE
  /\ runs = <<>>

AuxIdle == SenderIdle /\ DetectorIdle /\ SettingsIdle

ShellIdle ==
  /\ shContent = <<>>
  /\ shSanitized = NotCalled
  /\ shResanitized = NotCalled
  /\ shEscaped = NotCalled
  /\ pcShell = "idle"

NotifierIdle ==
  /\ pcN = "idle"
  /\ nTitle = <<>>
  /\ nMessage = <<>>
  /\ parentApp = NoParentApp
  /\ sendResult = NoResult
  /\ soundFileExists = FALSE
  /\ effects = <<>>

\* no hook process is running
HookIdle ==
  /\ hookScript = "none"
  /\ payloadEnv = NoPayloadEnv
  /\ stdin = EmptyStdin
  /\ argv = <<>>
  /\ pc = "idle"
  /\ notificationTitle = <<>>
  /\ notificationMessage = <<>>
  /\ notificationLevel = <<>>
  /\ titleSource = "none"
  /\ messageSource = "none"
  /\ stdinRead = FALSE
  /\ soundType = Undefined
  /\ enhanced = NoEnhanced
  /\ adaptiveNotifierReady = FALSE
  /\ exitCode = "running"

\* ---- the environments the detector is constructed in --------------------
Platforms == {"darwin", "linux", "win32", "freebsd"}
ForceConsoleValues == {Undefined, "true", "1"}
IsTTYValues == {"true", "false", Undefined}

CleanEnv == [n \in EnvNames |-> Undefined]

\* at most one CI indicator is set, to "true"; or CI is set to the empty string
CIChoices ==
  {CleanEnv} \cup {[CleanEnv EXCEPT ![ciIndicators[i]] = "true"] : i \in DOMAIN ciIndicators}
             \cup {[CleanEnv EXCEPT !["CI"] = ""]}

SSHChoices ==
  [SSHVarNames -> {Undefined, "set"}]

SoundChoices == {{}, {"afplay"}, {"say", "espeak"}}

InitEnv ==
  /\ platform \in Platforms
  /\ \E ci \in CIChoices, ssh \in SSHChoices, f \in ForceConsoleValues :
       env = [n \in EnvNames |->
                IF n \in SSHVarNames THEN ssh[n]
                ELSE IF n = "CAT_CCNOTIFY_FORCE_CONSOLE" THEN f
                ELSE ci[n]]
  /\ stdoutIsTTY \in IsTTYValues
  /\ stdinIsTTY \in IsTTYValues
  /\ \E n \in SUBSET NotifierCommands, s \in SoundChoices : commandsOnPath = n \cup s
  /\ notificationCapabilities = NoCapabilities
  /\ terminalInfo = NoTerminalInfo
  /\ pcEnv = "new"
  /\ NotifierIdle
  /\ HookIdle
  /\ ShellIdle
  /\ AuxIdle

\* new EnvironmentDetector()
Construct ==
  /\ pcEnv = "new"
  /\ terminalInfo' = detectTerminalEnvironment
  /\ notificationCapabilities' = detectNotificationCapabilities
  /\ pcEnv' = "constructed"
  /\ UNCHANGED <<platform, env, stdoutIsTTY, stdinIsTTY, commandsOnPath>>
  /\ UNCHANGED <<notifierVars, hookVars, shellVars, auxVars>>

NextEnv == Construct

SpecEnv == InitEnv /\ [][NextEnv]_vars

(***************************************************************************)
(* Claims about the environment detector (checked under SpecEnv)           *)
(***************************************************************************)
bestNotificationMethod == notificationCapabilities.bestNotificationMethod

AllNotifiersOnPath == NotifierCommands \subseteq commandsOnPath

\* C1: whenever CAT_CCNOTIFY_FORCE_CONSOLE is 'true', getBestNotificationMethod
\* returns 'console', for every platform, every combination of tool
\* availability and every SSH/CI/TTY state.
C1_ForceConsoleWins ==
  (pcEnv = "constructed" /\ env["CAT_CCNOTIFY_FORCE_CONSOLE"] = "true")
    => bestNotificationMethod = "console"

\* the override decides: a macOS terminal with alerter installed and no
\* SSH/CI/non-TTY indication, which would otherwise select alerter
C1_Witness ==
  /\ pcEnv = "constructed"
  /\ env["CAT_CCNOTIFY_FORCE_CONSOLE"] = "true"
  /\ platform = "darwin" /\ commandExists("alerter")
  /\ ~shouldForceConsole
  /\ bestNotificationMethod = "console"

\* C3: when SSH_CONNECTION is set and DISPLAY is not set, isSSHConnection()
\* is true and getBestNotificationMethod returns 'console', whatever notifier
\* tools are available.  ("set" is JavaScript truthiness, as in the code.)
C3_SSHWithoutDisplayIsConsole ==
  (pcEnv = "constructed" /\ Truthy(env["SSH_CONNECTION"]) /\ ~Truthy(env["DISPLAY"]))
    => (isSSHConnection /\ bestNotificationMethod = "console")

\* SSH_CONNECTION is the only console-forcing signal and every tool is there
C3_Witness ==
  /\ pcEnv = "constructed"
  /\ Truthy(env["SSH_CONNECTION"]) /\ ~Truthy(env["DISPLAY"])
  /\ ~Truthy(env["SSH_TTY"]) /\ ~Truthy(env["SSH_CLIENT"])
  /\ env["CAT_CCNOTIFY_FORCE_CONSOLE"] = Undefined
  /\ ~isCIEnvironment /\ ~isNonTTYEnvironment
  /\ platform = "darwin" /\ AllNotifiersOnPath
  /\ bestNotificationMethod = "console"

\* C4: when any CI-indicator variable is set to a non-empty value, the
\* selected method is 'console' even if all notifier tools are available and
\* stdout and stdin are TTYs.
C4_CIIsConsole ==
  (pcEnv = "constructed" /\ \E i \in DOMAIN ciIndicators : Truthy(env[ciIndicators[i]]))
    => bestNotificationMethod = "console"

\* a vendor CI variable is the only console-forcing signal, on an
\* interactive macOS terminal with every tool installed
C4_Witness ==
  /\ pcEnv = "constructed"
  /\ Truthy(env["TEAMCITY_VERSION"])
  /\ env["CAT_CCNOTIFY_FORCE_CONSOLE"] = Undefined
  /\ ~isSSHConnection
  /\ stdoutIsTTY = "true" /\ stdinIsTTY = "true"
  /\ platform = "darwin" /\ AllNotifiersOnPath
  /\ bestNotificationMethod = "console"

\* C18: isSSHConnection() is true exactly when (SSH_CONNECTION is set and
\* DISPLAY is not set) or SSH_TTY is set or SSH_CLIENT is set; SSH_TTY alone
\* is enough, and SSH_CONNECTION with DISPLAY and neither SSH_TTY nor
\* SSH_CLIENT is not an SSH connection.
C18_IsSSHConnection ==
  pcEnv = "constructed" =>
    (isSSHConnection <=>
       \/ Truthy(env["SSH_CONNECTION"]) /\ ~Truthy(env["DISPLAY"])
       \/ Truthy(env["SSH_TTY"])
       \/ Truthy(env["SSH_CLIENT"]))

stdoutAndStdinAreTTY == stdoutIsTTY = "true" /\ stdinIsTTY = "true"
aTTYFlagIsFalse == stdoutIsTTY = "false" \/ stdinIsTTY = "false"

C20_ForceConsoleIsTheOrOfThree ==
  pcEnv = "constructed" =>
    (shouldForceConsole <=> (isSSHConnection \/ isCIEnvironment \/ isNonTTYEnvironment))

\* the non-TTY check alone forces the console, every tool being installed
C20_Witness ==
  /\ pcEnv = "constructed"
  /\ stdoutIsTTY = "true" /\ stdinIsTTY = "false"
  /\ ~isSSHConnection /\ ~isCIEnvironment
  /\ env["CAT_CCNOTIFY_FORCE_CONSOLE"] = Undefined
  /\ platform = "darwin" /\ AllNotifiersOnPath
  /\ shouldForceConsole
  /\ bestNotificationMethod = "console"

noConsoleForcingCondition ==
  env["CAT_CCNOTIFY_FORCE_CONSOLE"] # "true" /\ ~shouldForceConsole

\* the first element of order that is on the PATH, or "console"
RECURSIVE firstAvailable(_)
firstAvailable(order) ==
  IF order = <<>> THEN "console"
  ELSE IF commandExists(Head(order)) THEN Head(order)
  ELSE firstAvailable(Tail(order))

priorityOrder ==
  IF platform = "darwin" THEN <<"alerter", "terminal-notifier", "osascript">>
  ELSE IF platform = "linux" THEN <<"notify-send">>
  ELSE <<>>

\* C21: when no console-forcing condition holds, getBestNotificationMethod
\* returns on darwin the first available of alerter, terminal-notifier,
\* osascript; on linux notify-send if available; on win32 powershell; and
\* 'console' in every remaining case.
C21_PlatformPriorityOrder ==
  (pcEnv = "constructed" /\ noConsoleForcingCondition) =>
    bestNotificationMethod =
      IF platform = "win32" THEN "powershell" ELSE firstAvailable(priorityOrder)

\* alerter and terminal-notifier are both installed: alerter is preferred
C21_Witness ==
  /\ pcEnv = "constructed"
  /\ noConsoleForcingCondition
  /\ platform = "darwin"
  /\ commandExists("alerter") /\ commandExists("terminal-notifier")
  /\ bestNotificationMethod = "alerter"

\* C22: the selected notification method is never an external tool that was
\* not detected as present: getBestNotificationMethod returns either
\* 'console' or a tool whose availability flag is true.
C22_SelectedToolWasDetected ==
  pcEnv = "constructed" =>
    \/ bestNotificationMethod = "console"
    \/ /\ bestNotificationMethod = "osascript"
       /\ notificationCapabilities.hasOsascript
    \/ /\ bestNotificationMethod = "terminal-notifier"
       /\ notificationCapabilities.hasTerminalNotifier
    \/ /\ bestNotificationMethod = "alerter"
       /\ notificationCapabilities.hasAlerter
    \/ /\ bestNotificationMethod = "notify-send"
       /\ notificationCapabilities.hasNotifySend

(***************************************************************************)
(* AdaptiveNotifier (lib/adaptive-notifier.js)                             *)
(***************************************************************************)
\* one entry of the effects log: an external command with its outcome, or a
\* console line with the title and message it carries
Effect(kind, ok, t, m) == [kind |-> kind, ok |-> ok, title |-> t, message |-> m]
Call(kind, ok) == Effect(kind, ok, <<>>, <<>>)

\* the records detectParentApp can return: an application found in the
\* process ancestry, or the fallback without bundle id
ParentApps ==
  {[name |-> "iTerm2", bundleId |-> "com.googlecode.iterm2"],
   [name |-> "Unknown Terminal", bundleId |-> Undefined]}

Resolved(success, method) == [state |-> "resolved", success |-> success, method |-> method]
Rejected(method) == [state |-> "rejected", success |-> FALSE, method |-> method]

\* playSound(): nothing without the sound file; otherwise the best sound
\* method is run inside a try/catch (playerOk is the player's outcome)
playSound(playerOk) ==
  IF ~soundFileExists THEN <<>>
  ELSE IF notificationCapabilities.bestSoundMethod \in {"afplay", "say", "espeak"}
       THEN <<Call(notificationCapabilities.bestSoundMethod, playerOk)>>
       ELSE <<Effect("stdout", TRUE, Chars("[AdaptiveNotifier] *meow*"), <<>>)>>

\* a slip in playSound: the player runs outside the try block
playSoundRaises_NoCatch(playerOk) ==
  /\ soundFileExists
  /\ notificationCapabilities.bestSoundMethod \in {"afplay", "say", "espeak"}
  /\ ~playerOk

\* whether playSound() raises to its caller: the player runs inside a
\* try/catch that only logs, and the missing file is answered by a return
playSoundRaises(playerOk) == FALSE

\* sendWithConsole: two console lines, the terminal bell, the sound
sendWithConsoleEffects(playerOk) ==
  <<Effect("console", TRUE, nTitle, nMessage)>> \o playSound(playerOk)

\* focusParentApp(parentApp), called when the alerter notification was clicked
focusParentApp(app, focusOk) ==
  IF app.bundleId = Undefined THEN <<>>
  ELSE IF platform = "darwin" THEN <<Call("osascript-activate", focusOk)>>
  ELSE <<>>

method == notificationCapabilities.bestNotificationMethod

usesITermShortcut == terminalInfo.isITerm2 /\ method = "osascript"

\* sendNotification, iTerm2 shortcut: sendWithOsascript is awaited before the
\* try block, so its exception leaves sendNotification
SendViaITermOsascript ==
  /\ pcN = "called"
  /\ usesITermShortcut
  /\ \E app \in ParentApps, ok \in BOOLEAN, playerOk \in BOOLEAN :
       /\ parentApp' = app
       /\ IF ok /\ ~playSoundRaises(playerOk)
          THEN /\ effects' = effects \o <<Call("osascript", TRUE)>> \o playSound(playerOk)
               /\ sendResult' = Resolved(TRUE, "osascript")
          ELSE /\ effects' = effects \o <<Call("osascript", ok)>>
                               \o (IF ok THEN playSound(playerOk) ELSE <<>>)
               /\ sendResult' = Rejected("osascript")
  /\ pcN' = "settled"
  /\ UNCHANGED <<nTitle, nMessage, soundFileExists>>
  /\ UNCHANGED <<envVars, hookVars, shellVars, auxVars>>

\* sendNotification, case 'alerter': spawn, then playSound while alerter runs.
\* An exception in the promise executor (spawn or require failing) rejects the
\* promise and sendNotification's catch falls back to the console.
SendViaAlerterSpawn ==
  /\ pcN = "called"
  /\ ~usesITermShortcut
  /\ method = "alerter"
  /\ \E app \in ParentApps, spawned \in BOOLEAN, playerOk \in BOOLEAN :
       /\ parentApp' = app
       /\ IF spawned /\ ~playSoundRaises(playerOk)
          THEN /\ effects' = effects \o <<Call("alerter-spawn", TRUE)>> \o playSound(playerOk)
               /\ sendResult' = [state |-> "pending", success |-> FALSE, method |-> "alerter"]
               /\ pcN' = "alerter-running"
          ELSE /\ effects' = effects
                               \o (IF spawned
                                   THEN <<Call("alerter-spawn", TRUE)>> \o playSound(playerOk)
                                   ELSE <<Call("alerter", FALSE)>>)
                               \o sendWithConsoleEffects(playerOk)
               /\ sendResult' = IF playSoundRaises(playerOk) THEN Rejected("console")
                                ELSE Resolved(TRUE, "console")
               /\ pcN' = "settled"
  /\ UNCHANGED <<nTitle, nMessage, soundFileExists>>
  /\ UNCHANGED <<envVars, hookVars, shellVars, auxVars>>

\* alerter.on('close'): focus the parent application when the notification
\* was clicked, resolve with success: code === 0
AlerterClose ==
  /\ pcN = "alerter-running"
  /\ \E code \in {0, 1}, clicked \in BOOLEAN, focusOk \in BOOLEAN :
       /\ effects' = effects \o <<Call("alerter", code = 0)>>
                       \o (IF clicked THEN focusParentApp(parentApp, focusOk) ELSE <<>>)
       /\ sendResult' = Resolved(code = 0, "alerter")
  /\ pcN' = "settled"
  /\ UNCHANGED <<nTitle, nMessage, parentApp, soundFileExists>>
  /\ UNCHANGED <<envVars, hookVars, shellVars, auxVars>>

\* a case of the switch that runs its tool with execSync: success plays the
\* sound (withSound) and resolves; an exception is rethrown, caught by
\* sendNotification and answered by sendWithConsole
SendViaExecSync(tool, withSound) ==
  /\ pcN = "called"
  /\ ~usesITermShortcut
  /\ method = tool
  /\ \E app \in ParentApps, ok \in BOOLEAN, playerOk \in BOOLEAN :
       /\ parentApp' = app
       /\ IF ok /\ ~(withSound /\ playSoundRaises(playerOk))
          THEN /\ effects' = effects \o <<Call(tool, TRUE)>>
                               \o (IF withSound THEN playSound(playerOk) ELSE <<>>)
               /\ sendResult' = Resolved(TRUE, tool)
          ELSE /\ effects' = effects \o <<Call(tool, ok)>>
                               \o (IF ok THEN playSound(playerOk) ELSE <<>>)
                               \o sendWithConsoleEffects(playerOk)
               /\ sendResult' = IF playSoundRaises(playerOk) THEN Rejected("console")
                                ELSE Resolved(TRUE, "console")
  /\ pcN' = "settled"
  /\ UNCHANGED <<nTitle, nMessage, soundFileExists>>
  /\ UNCHANGED <<envVars, hookVars, shellVars, auxVars>>

SendViaTerminalNotifier == SendViaExecSync("terminal-notifier", TRUE)

SendViaOsascript == SendViaExecSync("osascript", TRUE)

SendViaNotifySend == SendViaExecSync("notify-send", TRUE)

SendViaPowerShell == SendViaExecSync("powershell", FALSE)

\* sendNotification, default case: sendWithConsole
SendViaConsole ==
  /\ pcN = "called"
  /\ ~usesITermShortcut
  /\ method \notin {"alerter", "terminal-notifier", "osascript", "notify-send", "powershell"}
  /\ \E app \in ParentApps, playerOk \in BOOLEAN :
       /\ parentApp' = app
       /\ effects' = effects \o sendWithConsoleEffects(playerOk)
       /\ sendResult' = IF playSoundRaises(playerOk) THEN Rejected("console")
                        ELSE Resolved(TRUE, "console")
  /\ pcN' = "settled"
  /\ UNCHANGED <<nTitle, nMessage, soundFileExists>>
  /\ UNCHANGED <<envVars, hookVars, shellVars, auxVars>>

NextNotifier ==
  \/ SendViaITermOsascript
  \/ SendViaAlerterSpawn
  \/ AlerterClose
  \/ SendViaTerminalNotifier
  \/ SendViaOsascript
  \/ SendViaNotifySend
  \/ SendViaPowerShell
  \/ SendViaConsole

(***************************************************************************)
(* lib/error-handler.js                                                    *)
(***************************************************************************)
\* handleError(error, {fallbackAction, shouldNotifyUser}): logError appends to
\* the error log, the fallback action runs, the user message goes to stderr
handleError(fallbackEffects, shouldNotifyUser) ==
  <<Call("error-log", TRUE)>> \o fallbackEffects
    \o (IF shouldNotifyUser THEN <<Call("stderr", TRUE)>> ELSE <<>>)

(***************************************************************************)
(* hooks/notification-hook.js                                              *)
(***************************************************************************)
ClaudeCode == Chars("Claude Code")
info == Chars("info")

\* process.env.CAT_CCNOTIFY_DEBUG === 'true' || process.argv.includes('--debug')
isDebugMode ==
  env["CAT_CCNOTIFY_DEBUG"] = "true" \/ \E i \in DOMAIN argv : argv[i] = Chars("--debug")

\* debugLog(message): nothing unless debug mode is on, else a line appended
\* to the log file of the hook (the calls of one step are recorded as one)
debugLog == IF isDebugMode THEN <<Call("debug-log", TRUE)>> ELSE <<>>

\* getNotificationData(); the result carries, besides the title, message and
\* level, the channel each was taken from, whether standard input was read,
\* and whether the function threw (Object.keys(null) after the try block)
getNotificationData(penv, in, args) ==
  LET envNotification == Or(penv["CLAUDE_NOTIFICATION"],
                            Or(penv["NOTIFICATION_MESSAGE"], penv["HOOK_MESSAGE"]))
      envTitle == Or(penv["CLAUDE_TITLE"],
                     Or(penv["NOTIFICATION_TITLE"], penv["HOOK_TITLE"]))
      useEnv == TruthyStr(envNotification) \/ TruthyStr(envTitle)
      nonBlank == in.readable /\ trim(in.raw) # <<>>
      \* JSON.parse succeeded and the fields could be read
      asJson == ~useEnv /\ nonBlank /\ in.json.type = "object"
      \* JSON.parse threw, or reading a field of null threw: plain text
      asText == ~useEnv /\ nonBlank /\ in.json.type # "object"
      f == in.json.fields
      trimmedInput == trim(in.raw)
      nonBlankLine(line) == trim(line) # <<>>
      lines == SelectSeq(splitLines(trimmedInput), nonBlankLine)
      jsonTitle == Or(f.title, Or(f.summary, Or(f.name, f.header)))
      jsonMessage == Or(f.message, Or(f.body, Or(f.content, Or(f.text, f.description))))
      none == [title |-> <<>>, message |-> <<>>, level |-> info,
               tsrc |-> "none", msrc |-> "none"]
      \* methods 1 and 2
      s1 == IF useEnv
            THEN [title |-> Or(envTitle, ClaudeCode),
                  message |-> Or(envNotification, Chars("Notification")),
                  level |-> info,
                  tsrc |-> IF TruthyStr(envTitle) THEN "env" ELSE "env-default",
                  msrc |-> IF TruthyStr(envNotification) THEN "env" ELSE "env-default"]
            ELSE IF asJson
            THEN [title |-> Or(jsonTitle, ClaudeCode),
                  message |-> Or(jsonMessage, JSONstringify(in.json)),
                  level |-> Or(f.level, Or(f.type, Or(f.severity, info))),
                  tsrc |-> IF TruthyStr(jsonTitle) THEN "json" ELSE "json-default",
                  msrc |-> "json"]
            ELSE IF asText
            THEN IF Len(lines) > 1
                 THEN [title |-> trim(lines[1]),
                       message |-> trim(joinWithSpace(Tail(lines))),
                       level |-> info, tsrc |-> "text", msrc |-> "text"]
                 ELSE IF Len(trimmedInput) > 0
                 THEN [title |-> ClaudeCode, message |-> trimmedInput,
                       level |-> info, tsrc |-> "text-default", msrc |-> "text"]
                 ELSE none
            ELSE none
      \* method 3
      s2 == IF ~TruthyStr(s1.message) /\ Len(args) > 0
            THEN IF Len(args) = 1
                 THEN [title |-> ClaudeCode, message |-> args[1], level |-> s1.level,
                       tsrc |-> "args-default", msrc |-> "args"]
                 ELSE [title |-> args[1], message |-> args[2],
                       level |-> Or(IF Len(args) >= 3 THEN args[3] ELSE UndefinedStr, info),
                       tsrc |-> "args", msrc |-> "args"]
            ELSE s1
      \* ensure we have meaningful content
      s3 == [title |-> IF TruthyStr(s2.title) THEN s2.title ELSE ClaudeCode,
             message |-> IF TruthyStr(s2.message) THEN s2.message
                         ELSE Chars("Empty notification"),
             level |-> s2.level,
             tsrc |-> IF TruthyStr(s2.title) THEN s2.tsrc
                      ELSE IF s2.tsrc = "args" THEN "args-default" ELSE "default",
             msrc |-> IF TruthyStr(s2.message) THEN s2.msrc
                      ELSE IF s2.msrc = "args" THEN "args-default" ELSE "default"]
  IN [threw |-> ~useEnv /\ nonBlank /\ in.json.type = "null",
      notificationTitle |-> s3.title,
      notificationMessage |-> s3.message,
      notificationLevel |-> s3.level,
      titleSource |-> s3.tsrc,
      messageSource |-> s3.msrc,
      stdinRead |-> ~useEnv]

skipPatterns ==
  <<Chars("debug"), Chars("verbose"), Chars("trace"), Chars("internal"), Chars("system")>>

shouldSkipNotification(title, message) ==
  IF trim(title) = <<>> \/ trim(message) = <<>> THEN TRUE
  ELSE somePatternMatches(skipPatterns, toLowerCase(title \o <<" ">> \o message))

emojiMap ==
  [c \in {"success", "error", "warning", "info", "progress", "file", "git",
          "build", "test", "npm", "deploy"} |->
     CASE c = "success"  -> <<"U+2705">>
       [] c = "error"    -> <<"U+274C">>
       [] c = "warning"  -> <<"U+26A0", "U+FE0F">>
       [] c = "info"     -> <<"U+1F4A1">>
       [] c = "progress" -> <<"U+23F3">>
       [] c = "file"     -> <<"U+1F4C4">>
       [] c = "git"      -> <<"U+1F500">>
       [] c = "build"    -> <<"U+1F3D7", "U+FE0F">>
       [] c = "test"     -> <<"U+1F9EA">>
       [] c = "npm"      -> <<"U+1F4E6">>
       [] c = "deploy"   -> <<"U+1F680">>]

\* the bounds of the class [\u{1F300}-\u{1F9FF}]
EmojiRangeFirst == 127744
EmojiRangeLast == 129535

\* title.match(/[\u{1F300}-\u{1F9FF}]/u)
hasEmojiRangeChar(title) ==
  \E i \in DOMAIN title :
    /\ title[i] \in DOMAIN CodePoint
    /\ CodePoint[title[i]] >= EmojiRangeFirst
    /\ CodePoint[title[i]] <= EmojiRangeLast

\* getNotificationContext: '' for the recognised operations, null otherwise
getNotificationContext(title, message) ==
  LET content == toLowerCase(title \o <<" ">> \o message)
      has(w) == includes(content, Chars(w))
  IN IF (has("file") \/ has("write") \/ has("read"))
          /\ (has("created") \/ has("added") \/ has("modified") \/ has("updated")
                \/ has("deleted") \/ has("removed"))
     THEN <<>>
     ELSE IF has("git") \/ has("commit") \/ has("push") THEN <<>>
     ELSE IF has("build") \/ has("compile") \/ has("bundle") THEN <<>>
     ELSE IF has("test") \/ has("spec") THEN <<>>
     ELSE UndefinedStr

MaxMessageLength == 200
TruncatedLength == 197

\* a slip in the styling: the emoji is never added
enhanceNotificationStyle_NoEmoji(title, message, type) ==
  LET context == getNotificationContext(title, message)
      enhancedMessage == IF TruthyStr(context) THEN context \o <<" ">> \o message
                         ELSE message
  IN [title |-> title,
      message |-> IF Len(enhancedMessage) > MaxMessageLength
                  THEN SubSeq(enhancedMessage, 1, TruncatedLength) \o Chars("...")
                  ELSE enhancedMessage,
      sound |-> type]

enhanceNotificationStyle(title, message, type) ==
  LET emoji == emojiMap[type]
      enhancedTitle == IF ~hasEmojiRangeChar(title) THEN emoji \o <<" ">> \o title
                       ELSE title
      context == getNotificationContext(title, message)
      enhancedMessage == IF TruthyStr(context) THEN context \o <<" ">> \o message
                         ELSE message
  IN [title |-> enhancedTitle,
      message |-> IF Len(enhancedMessage) > MaxMessageLength
                  THEN SubSeq(enhancedMessage, 1, TruncatedLength) \o Chars("...")
                  ELSE enhancedMessage,
      sound |-> type]

\* the notification main's catch block sends
ErrorTitle == <<"U+1F431">> \o Chars(" Cat Notify Error")
ErrorMessage == Chars("Notification hook failed: Cannot convert undefined or null to object")

\* main() up to the await in sendEnhancedNotification: read the input, skip,
\* classify, style, sanitize, and call the adaptive notifier
NotificationHookMain ==
  /\ hookScript = "notification-hook.js"
  /\ pc = "start"
  /\ \E d \in {getNotificationData(payloadEnv, stdin, argv)} :
     \E type \in {analyzeNotificationContent(d.notificationTitle, d.notificationMessage)} :
     \E styled \in {enhanceNotificationStyle(d.notificationTitle, d.notificationMessage, type)} :
     \E safeTitle \in {sanitizeNotificationContent(styled.title)},
        safeMessage \in {sanitizeNotificationContent(styled.message)} :
        /\ stdinRead' = d.stdinRead
        /\ IF d.threw
           THEN \* main's catch: handleError, then the fallback notification
                /\ effects' = effects \o debugLog \o handleError(<<>>, TRUE)
                /\ pcN' = "called"
                /\ nTitle' = sanitizeNotificationContent(ErrorTitle)
                /\ nMessage' = sanitizeNotificationContent(ErrorMessage)
                /\ pc' = "awaiting"
                /\ UNCHANGED <<notificationTitle, notificationMessage, notificationLevel,
                               titleSource, messageSource, soundType, enhanced, exitCode>>
           ELSE /\ notificationTitle' = d.notificationTitle
                /\ notificationMessage' = d.notificationMessage
                /\ notificationLevel' = d.notificationLevel
                /\ titleSource' = d.titleSource
                /\ messageSource' = d.messageSource
                /\ IF (~TruthyStr(d.notificationTitle) /\ ~TruthyStr(d.notificationMessage))
                        \/ shouldSkipNotification(d.notificationTitle, d.notificationMessage)
                   THEN \* process.exit(0)
                        /\ pc' = "exited"
                        /\ exitCode' = "0"
                        /\ effects' = effects \o debugLog
                        /\ UNCHANGED <<soundType, enhanced, pcN, nTitle, nMessage>>
                   ELSE /\ soundType' = type
                        /\ enhanced' = styled
                        /\ IF safeTitle = <<>> /\ safeMessage = <<>>
                           THEN \* empty after sanitization: return, main ends
                                /\ pc' = "done"
                                /\ exitCode' = "0"
                                /\ effects' = effects \o debugLog
                                /\ UNCHANGED <<pcN, nTitle, nMessage>>
                           ELSE /\ pcN' = "called"
                                /\ nTitle' = safeTitle
                                /\ nMessage' = safeMessage
                                /\ pc' = "awaiting"
                                /\ effects' = effects \o debugLog
                                /\ UNCHANGED exitCode
  /\ UNCHANGED <<parentApp, sendResult, soundFileExists, adaptiveNotifierReady>>
  /\ UNCHANGED <<hookInputs, envVars, shellVars, auxVars>>

\* the legacy sound playback of the hooks: afplay when the file exists, and
\* handleError (without user message) when it does not or when afplay fails
legacySound(playerOk) ==
  IF soundFileExists
  THEN IF playerOk THEN <<Call("afplay", TRUE)>>
       ELSE <<Call("afplay", FALSE)>> \o handleError(<<>>, FALSE)
  ELSE handleError(<<>>, FALSE)

\* a slip in the failure handling: a rejected delivery ends the process with 1
NotificationHookAfterSend_FailureExitsOne ==
  /\ hookScript = "notification-hook.js"
  /\ pc = "awaiting"
  /\ pcN = "settled"
  /\ \E playerOk \in BOOLEAN :
       effects' =
         IF sendResult.state = "resolved"
         THEN IF sendResult.success THEN effects \o debugLog
              ELSE effects \o debugLog
                     \o <<Effect("hook-console", TRUE, nTitle, nMessage)>>
         ELSE effects \o debugLog
                \o handleError(<<Effect("hook-console", TRUE, nTitle, nMessage)>>, TRUE)
                \o legacySound(playerOk)
  /\ pc' = "done"
  /\ exitCode' = IF sendResult.state = "resolved" THEN "0" ELSE "1"
  /\ UNCHANGED <<notificationTitle, notificationMessage, notificationLevel,
                 titleSource, messageSource, stdinRead, soundType, enhanced,
                 adaptiveNotifierReady>>
  /\ UNCHANGED <<pcN, nTitle, nMessage, parentApp, sendResult, soundFileExists>>
  /\ UNCHANGED <<hookInputs, envVars, shellVars, auxVars>>

\* sendEnhancedNotification after the await: nothing more on success, a
\* console line on a failed result, and on a rejection handleError with the
\* console line as fallback action followed by the legacy sound playback
NotificationHookAfterSend ==
  /\ hookScript = "notification-hook.js"
  /\ pc = "awaiting"
  /\ pcN = "settled"
  /\ \E playerOk \in BOOLEAN :
       effects' =
         IF sendResult.state = "resolved"
         THEN IF sendResult.success THEN effects \o debugLog
              ELSE effects \o debugLog
                     \o <<Effect("hook-console", TRUE, nTitle, nMessage)>>
         ELSE effects \o debugLog
                \o handleError(<<Effect("hook-console", TRUE, nTitle, nMessage)>>, TRUE)
                \o legacySound(playerOk)
  /\ pc' = "done"
  /\ exitCode' = "0"
  /\ UNCHANGED <<notificationTitle, notificationMessage, notificationLevel,
                 titleSource, messageSource, stdinRead, soundType, enhanced,
                 adaptiveNotifierReady>>
  /\ UNCHANGED <<pcN, nTitle, nMessage, parentApp, sendResult, soundFileExists>>
  /\ UNCHANGED <<hookInputs, envVars, shellVars, auxVars>>

(***************************************************************************)
(* hooks/stop-hook.cjs                                                     *)
(***************************************************************************)
\* getStopData(); stopData is "null" when JSON.parse returned null, and
\* source tells where the title and the message came from
getStopData_NoLoopGuard(in, args) ==
  LET blank == in.readable /\ trim(in.raw) = <<>>
      fieldReadFailed == in.readable /\ ~blank /\ in.json.type = "null"
      fromArgs == ~in.readable \/ (~blank /\ in.json.type # "object")
      arg(i) == IF Len(args) >= i THEN args[i] ELSE UndefinedStr
      f == in.json.fields
  IN IF fromArgs
     THEN [stopData |-> IF fieldReadFailed THEN "null" ELSE "object",
           stopTitle |-> Or(arg(1), ClaudeCode),
           stopMessage |-> Or(arg(2), Chars("Stop Event")),
           skipNotification |-> FALSE, source |-> "args"]
     ELSE IF blank
     THEN [stopData |-> "object", stopTitle |-> <<>>, stopMessage |-> <<>>,
           skipNotification |-> FALSE, source |-> "empty"]
     ELSE [stopData |-> "object",
           stopTitle |-> Or(f["title"], Chars("Claude Code Session")),
           stopMessage |-> Or(f["message"], Chars("Session Stopped")),
           skipNotification |-> FALSE, source |-> "json"]

getStopData(in, args) ==
  LET blank == in.readable /\ trim(in.raw) = <<>>
      \* reading stop_hook_active of null throws, and the catch block
      \* falls back to the arguments as for a parse error
      fieldReadFailed == in.readable /\ ~blank /\ in.json.type = "null"
      fromArgs == ~in.readable \/ (~blank /\ in.json.type # "object")
      arg(i) == IF Len(args) >= i THEN args[i] ELSE UndefinedStr
      f == in.json.fields
  IN IF fromArgs
     THEN [stopData |-> IF fieldReadFailed THEN "null" ELSE "object",
           stopTitle |-> Or(arg(1), ClaudeCode),
           stopMessage |-> Or(arg(2), Chars("Stop Event")),
           skipNotification |-> FALSE, source |-> "args"]
     ELSE IF blank
     THEN [stopData |-> "object", stopTitle |-> <<>>, stopMessage |-> <<>>,
           skipNotification |-> FALSE, source |-> "empty"]
     ELSE IF f["stop_hook_active"] = TrueValue
     THEN [stopData |-> "object", stopTitle |-> UndefinedStr,
           stopMessage |-> UndefinedStr,
           skipNotification |-> TRUE, source |-> "json"]
     ELSE [stopData |-> "object",
           stopTitle |-> Or(f["title"], Chars("Claude Code Session")),
           stopMessage |-> Or(f["message"], Chars("Session Stopped")),
           skipNotification |-> FALSE, source |-> "json"]

\* the prefixes of the stop notification: a cat face, and "session ended: "
StopTitlePrefix == <<"U+1F431", " ">>
StopMessagePrefix ==
  <<"U+30BB", "U+30C3", "U+30B7", "U+30E7", "U+30F3", "U+7D42", "U+4E86", ":", " ">>

\* a slip in the legacy path: handleError is called without a fallback action
legacyStopNotification_NoFallback(osascriptOk, safeTitle, safeMessage) ==
  LET finalTitle == StopTitlePrefix \o safeTitle
      finalMessage == StopMessagePrefix \o safeMessage
  IN IF osascriptOk
     THEN <<Effect("legacy-osascript", TRUE, finalTitle, finalMessage)>>
     ELSE <<Effect("legacy-osascript", FALSE, finalTitle, finalMessage)>>
            \o handleError(<<>>, TRUE)

\* the legacy osascript notification of the stop hook, with handleError and
\* its console line when osascript fails
legacyStopNotification(osascriptOk, safeTitle, safeMessage) ==
  LET finalTitle == StopTitlePrefix \o safeTitle
      finalMessage == StopMessagePrefix \o safeMessage
  IN IF osascriptOk
     THEN <<Effect("legacy-osascript", TRUE, finalTitle, finalMessage)>>
     ELSE <<Effect("legacy-osascript", FALSE, finalTitle, finalMessage)>>
            \o handleError(<<Effect("hook-console", TRUE, safeTitle, safeMessage)>>, TRUE)

\* main() up to the await of the adaptive notifier in sendStopNotification,
\* or to its end when the notifier could not be imported
StopHookMain ==
  /\ hookScript = "stop-hook.cjs"
  /\ pc = "start"
  /\ LET d == getStopData(stdin, argv)
         safeTitle == sanitizeNotificationContent(d.stopTitle)
         safeMessage == sanitizeNotificationContent(d.stopMessage)
     IN /\ stdinRead' = TRUE
        /\ IF d.skipNotification
           THEN \* process.exit(0)
                /\ pc' = "exited"
                /\ exitCode' = "0"
                /\ UNCHANGED <<notificationTitle, notificationMessage, titleSource,
                               messageSource, adaptiveNotifierReady,
                               pcN, nTitle, nMessage>>
                /\ effects' = effects \o debugLog
           ELSE /\ notificationTitle' = d.stopTitle
                /\ notificationMessage' = d.stopMessage
                /\ titleSource' = d.source
                /\ messageSource' = d.source
                /\ IF d.stopData = "null"
                   THEN \* stopData.stop_hook_active throws; main's catch
                        /\ effects' = effects \o debugLog \o handleError(<<>>, TRUE)
                        /\ pc' = "done"
                        /\ exitCode' = "0"
                        /\ UNCHANGED <<adaptiveNotifierReady, pcN, nTitle, nMessage>>
                   ELSE IF ~TruthyStr(d.stopTitle) /\ ~TruthyStr(d.stopMessage)
                   THEN \* process.exit(0)
                        /\ pc' = "exited"
                        /\ exitCode' = "0"
                        /\ effects' = effects \o debugLog
                        /\ UNCHANGED <<adaptiveNotifierReady, pcN, nTitle, nMessage>>
                   ELSE IF safeTitle = <<>> /\ safeMessage = <<>>
                   THEN /\ pc' = "done"
                        /\ exitCode' = "0"
                        /\ effects' = effects \o debugLog
                        /\ UNCHANGED <<adaptiveNotifierReady, pcN, nTitle, nMessage>>
                   ELSE \E importOk \in BOOLEAN :
                          /\ adaptiveNotifierReady' = importOk
                          /\ IF importOk
                             THEN /\ pcN' = "called"
                                  /\ nTitle' = StopTitlePrefix \o safeTitle
                                  /\ nMessage' = StopMessagePrefix \o safeMessage
                                  /\ pc' = "awaiting"
                                  /\ effects' = effects \o debugLog
                                  /\ UNCHANGED exitCode
                             ELSE \E osascriptOk \in BOOLEAN, playerOk \in BOOLEAN :
                                    /\ effects' = effects \o debugLog
                                         \o legacyStopNotification(osascriptOk, safeTitle, safeMessage)
                                         \o legacySound(playerOk)
                                    /\ pc' = "done"
                                    /\ exitCode' = "0"
                                    /\ UNCHANGED <<pcN, nTitle, nMessage>>
  /\ UNCHANGED <<notificationLevel, soundType, enhanced>>
  /\ UNCHANGED <<parentApp, sendResult, soundFileExists>>
  /\ UNCHANGED <<hookInputs, envVars, shellVars, auxVars>>

\* sendStopNotification after the await: done on success; on a failed result
\* or a rejection the legacy osascript notification (no legacy sound, the
\* adaptive notifier being loaded)
StopHookAfterSend ==
  /\ hookScript = "stop-hook.cjs"
  /\ pc = "awaiting"
  /\ pcN = "settled"
  /\ IF sendResult.state = "resolved" /\ sendResult.success
     THEN effects' = effects \o debugLog
     ELSE \E osascriptOk \in BOOLEAN :
            effects' = effects \o debugLog
              \o legacyStopNotification(osascriptOk,
                                        sanitizeNotificationContent(notificationTitle),
                                        sanitizeNotificationContent(notificationMessage))
  /\ pc' = "done"
  /\ exitCode' = "0"
  /\ UNCHANGED <<notificationTitle, notificationMessage, notificationLevel,
                 titleSource, messageSource, stdinRead, soundType, enhanced,
                 adaptiveNotifierReady>>
  /\ UNCHANGED <<pcN, nTitle, nMessage, parentApp, sendResult, soundFileExists>>
  /\ UNCHANGED <<hookInputs, envVars, shellVars, auxVars>>

\* ---- the notifier called directly, in every environment it can load in --
TermPrograms == {Undefined, "iTerm.app", "vscode"}

\* the singleton detector, constructed at module load on an interactive
\* terminal (or with the console override set)
EnvConstructed ==
  /\ platform \in Platforms
  /\ \E tp \in TermPrograms, f \in {Undefined, "true"} :
       env = [CleanEnv EXCEPT !["TERM_PROGRAM"] = tp,
                              !["CAT_CCNOTIFY_FORCE_CONSOLE"] = f]
  /\ stdoutIsTTY = "true"
  /\ stdinIsTTY \in {"true", Undefined}
  /\ \E n \in SUBSET NotifierCommands, snd \in SoundChoices : commandsOnPath = n \cup snd
  /\ notificationCapabilities = detectNotificationCapabilities
  /\ terminalInfo = detectTerminalEnvironment
  /\ pcEnv = "constructed"

InitNotifier ==
  /\ EnvConstructed
  /\ pcN = "called"
  /\ nTitle = Chars("Hello")
  /\ nMessage = Chars("World")
  /\ parentApp = NoParentApp
  /\ sendResult = NoResult
  /\ soundFileExists \in BOOLEAN
  /\ effects = <<>>
  /\ HookIdle
  /\ ShellIdle
  /\ AuxIdle

SpecNotifier == InitNotifier /\ [][NextNotifier]_vars

(***************************************************************************)
(* Claims about the adaptive notifier (checked under SpecNotifier)         *)
(***************************************************************************)
ExternalNotifiers ==
  {"alerter", "terminal-notifier", "osascript", "notify-send", "powershell"}

\* the outcomes of the external notifier tools that were run
notifierCalls == {i \in DOMAIN effects : effects[i].kind \in ExternalNotifiers}

everyNotifierFailed == \A i \in notifierCalls : ~effects[i].ok

\* C2: if every external notifier tool fails (throws or exits non-zero),
\* sendNotification still resolves with success = true and method = 'console';
\* for no selected method and no terminal type does it reject or resolve with
\* success = false.
C2_AllToolsFailingStillSucceeds ==
  (pcN = "settled" /\ everyNotifierFailed) =>
    /\ sendResult.state = "resolved"
    /\ sendResult.success
    /\ sendResult.method = "console"

macOSPriority == <<"alerter", "terminal-notifier", "osascript">>

priorityIndex(kind) == CHOOSE i \in DOMAIN macOSPriority : macOSPriority[i] = kind

\* the macOS candidates that come after kind in priority order and are present
laterCandidates(kind) ==
  {macOSPriority[j] : j \in {k \in DOMAIN macOSPriority :
                                 k > priorityIndex(kind) /\ commandExists(macOSPriority[k])}}

nextCandidate(kind) ==
  CHOOSE c \in laterCandidates(kind) :
    \A d \in laterCandidates(kind) : priorityIndex(c) <= priorityIndex(d)

\* C23: when a delivery attempt fails by exception or non-zero exit, the
\* dispatcher proceeds to the next available candidate in priority order (on
\* macOS alerter, then terminal-notifier, then osascript, then console);
\* candidates are attempted in that order and no failed method is attempted
\* again.
C23_FailureProceedsToNextCandidate ==
  (pcN = "settled" /\ platform = "darwin") =>
    /\ \A i \in notifierCalls :
         (~effects[i].ok /\ laterCandidates(effects[i].kind) # {}) =>
           \E j \in notifierCalls : j > i /\ effects[j].kind = nextCandidate(effects[i].kind)
    /\ \A i, j \in notifierCalls :
         i < j => priorityIndex(effects[i].kind) < priorityIndex(effects[j].kind)

isNotifierCall(e) == e.kind \in ExternalNotifiers

\* the result sendNotification returns, told from the notifier tools that
\* were run and their outcomes alone: no sound effect is looked at
resultOfNotifierCalls ==
  LET calls == SelectSeq(effects, isNotifierCall)
      last == calls[Len(calls)]
      spawned == \E i \in DOMAIN effects : effects[i].kind = "alerter-spawn"
  IN IF calls = <<>> THEN Resolved(TRUE, "console")
     ELSE IF last.ok THEN Resolved(TRUE, last.kind)
     ELSE IF usesITermShortcut THEN Rejected("osascript")
     ELSE IF spawned THEN Resolved(FALSE, "alerter")
     ELSE Resolved(TRUE, "console")

\* C17: a sound failure never changes the delivery result: for every method
\* the returned success and method are those the notifier tools alone
\* determine, whether playSound succeeded or failed, and playSound does not
\* raise to its caller.
C17_SoundNeverChangesResult ==
  pcN = "settled" =>
    /\ sendResult = resultOfNotifierCalls
    /\ \A playerOk \in BOOLEAN : ~playSoundRaises(playerOk)

C17_Witness ==
  /\ pcN = "settled"
  /\ \E i \in DOMAIN effects : effects[i].kind = "afplay" /\ ~effects[i].ok
  /\ sendResult = Resolved(TRUE, "terminal-notifier")


(***************************************************************************)
(* The classifier applied to sample notifications                          *)
(***************************************************************************)
\* a detector constructed on an interactive macOS terminal, no hook running
EnvDefault ==
  /\ platform = "darwin"
  /\ env = CleanEnv
  /\ stdoutIsTTY = "true"
  /\ stdinIsTTY = "true"
  /\ commandsOnPath = {"osascript", "afplay"}
  /\ notificationCapabilities = detectNotificationCapabilities
  /\ terminalInfo = detectTerminalEnvironment
  /\ pcEnv = "constructed"

\* the same terminal with the debug flag set
EnvDebug ==
  /\ platform = "darwin"
  /\ env = [CleanEnv EXCEPT !["CAT_CCNOTIFY_DEBUG"] = "true"]
  /\ stdoutIsTTY = "true"
  /\ stdinIsTTY = "true"
  /\ commandsOnPath = {"osascript", "afplay"}
  /\ notificationCapabilities = detectNotificationCapabilities
  /\ terminalInfo = detectTerminalEnvironment
  /\ pcEnv = "constructed"

ClassifyTitles ==
  {Chars("Build Complete"), Chars("Tests Passed"), Chars("Git Push Failed"),
   Chars("Hello"), Chars("Git Push"), Chars("Deploy finished"),
   Chars("Deprecated package"), Chars("Reading file"),
   <<"U+1F680">> \o Chars(" Launch"), Chars("Building")}

ClassifyMessages ==
  {Chars("Compilation successful"), Chars("All 25 tests completed successfully!"),
   Chars("Permission denied to repository"), Chars("World"),
   Chars("Fatal error"), Chars("npm install"), Chars("webpack bundle"),
   Chars("jest coverage"), Chars("to staging"), <<>>}

InitClassify ==
  /\ EnvDefault
  /\ NotifierIdle
  /\ hookScript = "notification-hook.js"
  /\ payloadEnv = NoPayloadEnv
  /\ stdin = EmptyStdin
  /\ argv = <<>>
  /\ pc = "analyze"
  /\ notificationTitle \in ClassifyTitles
  /\ notificationMessage \in ClassifyMessages
  /\ notificationLevel = <<>>
  /\ titleSource = "none"
  /\ messageSource = "none"
  /\ stdinRead = FALSE
  /\ soundType = Undefined
  /\ enhanced = NoEnhanced
  /\ adaptiveNotifierReady = FALSE
  /\ exitCode = "running"
  /\ ShellIdle
  /\ AuxIdle

\* const soundType = analyzeNotificationContent(notificationTitle, notificationMessage)
Analyze ==
  /\ pc = "analyze"
  /\ soundType' = analyzeNotificationContent(notificationTitle, notificationMessage)
  /\ pc' = "analyzed"
  /\ UNCHANGED <<notificationTitle, notificationMessage, notificationLevel,
                 titleSource, messageSource, stdinRead, enhanced,
                 adaptiveNotifierReady, exitCode>>
  /\ UNCHANGED <<hookInputs, envVars, notifierVars, shellVars, auxVars>>

NextClassify == Analyze

SpecClassify == InitClassify /\ [][NextClassify]_vars

(***************************************************************************)
(* Claims about the classifier (checked under SpecClassify)                *)
(***************************************************************************)
categoryOrder ==
  <<"error", "warning", "success", "progress", "git", "build", "test",
    "deploy", "npm", "file">>

classifiedContent == toLowerCase(notificationTitle \o <<" ">> \o notificationMessage)

categoryMatches(c) == somePatternMatches(patternsOf(c), classifiedContent)

\* the first category of the fixed order whose pattern list matches, or info
firstMatchingCategory ==
  IF \A k \in DOMAIN categoryOrder : ~categoryMatches(categoryOrder[k]) THEN "info"
  ELSE categoryOrder[CHOOSE k \in DOMAIN categoryOrder :
                       /\ categoryMatches(categoryOrder[k])
                       /\ \A j \in 1..(k - 1) : ~categoryMatches(categoryOrder[j])]

overrideResult ==
  IF categoryMatches("error") THEN "error"
  ELSE IF categoryMatches("success") THEN "success"
  ELSE firstMatchingCategory

\* C8 as stated: when the first matching category is a process category the
\* result is error / success / the category by the override, and the two
\* examples get their result through the build+success and git+error override,
\* i.e. with build resp. git as the first matching category.
C8_OverrideDecidesExamples ==
  pc = "analyzed" =>
    /\ (firstMatchingCategory \in processCategories => soundType = overrideResult)
    /\ ((notificationTitle = Chars("Build Complete")
          /\ notificationMessage = Chars("Compilation successful"))
         => (soundType = "success" /\ firstMatchingCategory = "build"))
    /\ ((notificationTitle = Chars("Git Push Failed")
          /\ notificationMessage = Chars("Permission denied to repository"))
         => (soundType = "error" /\ firstMatchingCategory = "git"))

\* C8 amended: when the first matching category is a process category no error
\* and no success pattern matches (both come earlier in the order) and the
\* result is the process category itself; the two examples yield success and
\* error because success resp. error is their first matching category.
C8_ProcessCategoryIsReturned ==
  pc = "analyzed" =>
    /\ (firstMatchingCategory \in processCategories =>
          /\ ~categoryMatches("error") /\ ~categoryMatches("success")
          /\ soundType = firstMatchingCategory)
    /\ ((notificationTitle = Chars("Build Complete")
          /\ notificationMessage = Chars("Compilation successful"))
         => (soundType = "success" /\ firstMatchingCategory = "success"))
    /\ ((notificationTitle = Chars("Git Push Failed")
          /\ notificationMessage = Chars("Permission denied to repository"))
         => (soundType = "error" /\ firstMatchingCategory = "error"))

\* a notification whose first matching category is the process category git
C8_Witness ==
  /\ pc = "analyzed"
  /\ notificationTitle = Chars("Git Push")
  /\ notificationMessage = Chars("World")
  /\ firstMatchingCategory = "git"
  /\ soundType = "git"

(***************************************************************************)
(* The notification hook run on sample inputs                              *)
(***************************************************************************)
LongMessageLength == 210

LongMessage == [i \in 1..LongMessageLength |-> "x"]

HookTitles ==
  {UndefinedStr, <<>>, <<" ">>, <<"SOH">>, <<"VT">>, Chars("Build Complete"),
   Chars("Hello"),
   Chars("Debug info"), <<"U+2705">> \o Chars(" Done"),
   Chars("Deploy ") \o <<"U+1F680">> \o Chars(" now")}

HookMessages ==
  {UndefinedStr, <<>>, <<"SOH">>, <<"VT">>, Chars("TypeScript compilation finished"),
   Chars("World"), LongMessage}

JsonInputs ==
  {JsonObject([NoFields EXCEPT !["title"] = t, !["message"] = m]) :
     t \in HookTitles, m \in HookMessages}
  \cup {JsonObject([NoFields EXCEPT !["summary"] = Chars("Summary"),
                                    !["body"] = Chars("Body text"),
                                    !["severity"] = Chars("warning")]),
        JsonObject([NoFields EXCEPT !["title"] = Chars("Hello"),
                                    !["message"] = Chars("World"),
                                    !["stop_hook_active"] = TrueValue]),
        JsonObject([NoFields EXCEPT !["title"] = Chars("Hello"),
                                    !["message"] = Chars("World"),
                                    !["stop_hook_active"] = FalseValue]),
        JsonObject([NoFields EXCEPT !["stop_hook_active"] = Chars("true")]),
        JsonNull}

TextInputs ==
  {<<>>, <<" ", "LF">>, Chars("Hello"), Chars("{bad"),
   Chars("Title") \o <<"LF">> \o Chars("body") \o <<"LF", "LF">> \o Chars("more")}

StdinChoices ==
  {JsonStdin(j) : j \in JsonInputs} \cup {TextStdin(t) : t \in TextInputs}
    \cup {UnreadableStdin}

PayloadEnvChoices ==
  {NoPayloadEnv,
   [NoPayloadEnv EXCEPT !["CLAUDE_NOTIFICATION"] = Chars("claude message"),
                        !["NOTIFICATION_MESSAGE"] = Chars("other message")],
   [NoPayloadEnv EXCEPT !["CLAUDE_TITLE"] = Chars("Claude Title")],
   [NoPayloadEnv EXCEPT !["CLAUDE_NOTIFICATION"] = <<>>,
                        !["HOOK_MESSAGE"] = Chars("hook message"),
                        !["NOTIFICATION_TITLE"] = Chars("Other Title"),
                        !["HOOK_TITLE"] = Chars("Hook Title")]}

ArgvChoices ==
  {<<>>, <<Chars("Only")>>, <<Chars("Arg Title"), Chars("arg message")>>,
   <<Chars("Arg Title"), <<>>>>, <<<<>>, Chars("arg message")>>,
   <<Chars("Arg Title"), Chars("arg message"), Chars("error")>>,
   <<Chars("--debug")>>}

\* a hook process has started and has done nothing yet
HookStarted ==
  /\ pc = "start"
  /\ notificationTitle = <<>>
  /\ notificationMessage = <<>>
  /\ notificationLevel = <<>>
  /\ titleSource = "none"
  /\ messageSource = "none"
  /\ stdinRead = FALSE
  /\ soundType = Undefined
  /\ enhanced = NoEnhanced
  /\ adaptiveNotifierReady = FALSE
  /\ exitCode = "running"
  /\ pcN = "idle"
  /\ nTitle = <<>>
  /\ nMessage = <<>>
  /\ parentApp = NoParentApp
  /\ sendResult = NoResult
  /\ soundFileExists \in BOOLEAN
  /\ effects = <<>>
  /\ ShellIdle
  /\ AuxIdle

\* every input on the default terminal, the JSON inputs with the debug flag
\* set, and two inputs in every environment
InitHookInputs ==
  \/ /\ EnvDefault
     /\ payloadEnv \in PayloadEnvChoices
     /\ stdin \in StdinChoices
     /\ argv \in ArgvChoices
  \/ /\ EnvDebug
     /\ payloadEnv = NoPayloadEnv
     /\ stdin \in {JsonStdin(j) : j \in JsonInputs}
     /\ argv = <<>>
  \/ /\ EnvConstructed
     /\ payloadEnv = NoPayloadEnv
     /\ stdin \in {JsonStdin(JsonObject([NoFields EXCEPT !["title"] = Chars("Hello"),
                                                          !["message"] = Chars("World")])),
                   JsonStdin(JsonNull)}
     /\ argv = <<>>

InitNotificationHook ==
  /\ hookScript = "notification-hook.js"
  /\ InitHookInputs
  /\ HookStarted

NextNotificationHook ==
  \/ NotificationHookMain
  \/ NextNotifier
  \/ NotificationHookAfterSend

SpecNotificationHook == InitNotificationHook /\ [][NextNotificationHook]_vars

(***************************************************************************)
(* Claims about the notification hook (checked under SpecNotificationHook) *)
(***************************************************************************)
\* what counts as an attempt to deliver: a notifier tool, a console line, or
\* the legacy osascript call
DeliveryKinds ==
  ExternalNotifiers \cup {"alerter-spawn", "console", "hook-console", "legacy-osascript"}

noDeliveryAttempt ==
  /\ pcN = "idle"
  /\ \A i \in DOMAIN effects : effects[i].kind \notin DeliveryKinds

\* the hook has obtained a title and a message
hasNotificationData == pc # "start" /\ titleSource # "none"

emptyAfterSanitization ==
  /\ sanitizeNotificationContent(notificationTitle) = <<>>
  /\ sanitizeNotificationContent(notificationMessage) = <<>>

\* C5: when the title and the message of the hook input are both empty after
\* sanitization, the hook makes no delivery attempt (no adaptive dispatch, no
\* legacy osascript call, no console line) and exits with code 0.
C5_EmptyAfterSanitizationIsDropped ==
  (hasNotificationData /\ emptyAfterSanitization) =>
    /\ noDeliveryAttempt
    /\ exitCode = "0"

\* the input is a JSON object on stdin with a non-empty title and message,
\* and no notification variable is set in the environment
wellFormedJsonInput ==
  /\ \A n \in PayloadEnvNames : ~TruthyStr(payloadEnv[n])
  /\ stdin.readable
  /\ stdin.json.type = "object"
  /\ TruthyStr(stdin.json.fields["title"])
  /\ TruthyStr(stdin.json.fields["message"])

isEmojiChar(c) == c \in DOMAIN CodePoint /\ c # "U+FE0F"

containsEmoji(title) == \E i \in DOMAIN title : isEmojiChar(title[i])

\* the number of emoji a title begins with (variation selectors and the
\* spaces between the emoji do not end the run)
RECURSIVE leadingEmojiCount(_)
leadingEmojiCount(title) ==
  IF title = <<>> THEN 0
  ELSE IF isEmojiChar(Head(title)) THEN 1 + leadingEmojiCount(Tail(title))
  ELSE IF Head(title) \in {"U+FE0F", " "} THEN leadingEmojiCount(Tail(title))
  ELSE 0

styledPayloadDispatched ==
  /\ soundType # Undefined
  /\ pcN # "idle"
  /\ (nTitle # <<>> \/ nMessage # <<>>)
  /\ leadingEmojiCount(nTitle) = 1

payloadEnvPresent == \E n \in PayloadEnvNames : TruthyStr(payloadEnv[n])

stdinNonBlank == stdin.readable /\ trim(stdin.raw) # <<>>

\* the channel the priority order selects for the inputs of the process
expectedChannel ==
  IF payloadEnvPresent THEN "env"
  ELSE IF stdinNonBlank /\ stdin.json.type # "invalid" THEN "json"
  ELSE IF stdinNonBlank THEN "text"
  ELSE IF argv # <<>> THEN "args"
  ELSE "default"

\* the channel a value was taken from; a channel's placeholder for a missing
\* title or message counts as that channel
ChannelOf(source) ==
  CASE source \in {"env", "env-default"} -> "env"
    [] source \in {"json", "json-default"} -> "json"
    [] source \in {"text", "text-default"} -> "text"
    [] source \in {"args", "args-default"} -> "args"
    [] OTHER -> source

firstTruthy(values) ==
  IF \E i \in DOMAIN values : TruthyStr(values[i])
  THEN values[CHOOSE i \in DOMAIN values :
                /\ TruthyStr(values[i])
                /\ \A j \in 1..(i - 1) : ~TruthyStr(values[j])]
  ELSE UndefinedStr

\* C9: getNotificationData takes the title/message pair from exactly one
\* channel, the first present in the order environment (CLAUDE_ before
\* NOTIFICATION_ before HOOK_), JSON on stdin, plain text on stdin,
\* command-line arguments, default; stdin is not read when the environment
\* carries a payload.
C9_ChannelPrecedence ==
  pc # "start" =>
    /\ ChannelOf(titleSource) = expectedChannel
    /\ ChannelOf(messageSource) = expectedChannel
    /\ payloadEnvPresent => ~stdinRead
    /\ messageSource = "env" =>
         notificationMessage =
           firstTruthy(<<payloadEnv["CLAUDE_NOTIFICATION"],
                         payloadEnv["NOTIFICATION_MESSAGE"], payloadEnv["HOOK_MESSAGE"]>>)
    /\ titleSource = "env" =>
         notificationTitle =
           firstTruthy(<<payloadEnv["CLAUDE_TITLE"],
                         payloadEnv["NOTIFICATION_TITLE"], payloadEnv["HOOK_TITLE"]>>)

(***************************************************************************)
(* The stop hook run on the same inputs                                    *)
(***************************************************************************)
InitStopHook ==
  /\ hookScript = "stop-hook.cjs"
  /\ InitHookInputs
  /\ HookStarted

NextStopHook ==
  \/ StopHookMain
  \/ NextNotifier
  \/ StopHookAfterSend

SpecStopHook == InitStopHook /\ [][NextStopHook]_vars

(***************************************************************************)
(* Claims about the stop hook (checked under SpecStopHook)                 *)
(***************************************************************************)
\* the stop payload on stdin is a JSON object whose stop_hook_active is true
stopHookActive ==
  /\ stdinNonBlank
  /\ stdin.json.type = "object"
  /\ stdin.json.fields["stop_hook_active"] = TrueValue

\* C10: a stop payload with stop_hook_active === true makes the stop hook
\* exit with code 0 without any delivery attempt.
C10_ActiveStopHookIsSilent ==
  stopHookActive =>
    /\ noDeliveryAttempt
    /\ pc # "start" => (pc = "exited" /\ exitCode = "0")

C10_Witness ==
  /\ stopHookActive
  /\ pc = "exited"
  /\ exitCode = "0"
  /\ stdinRead

(***************************************************************************)
(* The functions of the shell executor applied to sample strings           *)
(***************************************************************************)
MaxShortLen == 2
MaxOver == 3

ShellAlphabet == {"a", "n", "\"", "\\", "LF", "CR", "TAB", "SOH", "VT", "DEL"}

ShortInputs == UNION {[1..n -> ShellAlphabet] : n \in 0..MaxShortLen}

\* n letters, the one at position pos (if any) replaced by the character c
LongString(n, c, pos) == [i \in 1..n |-> IF i = pos THEN c ELSE "a"]

\* strings around the length limit, with a special character at the start,
\* at the limit, or at the end
LongInputs ==
  {LongString(n, c, pos) :
     n \in (maxLength - 1)..(maxLength + MaxOver),
     c \in {"SOH", "\"", "\\", "LF"},
     pos \in {0, 1, maxLength, maxLength + 1}}

\* a value that is not a string (undefined, null, a number)
ShellInputs == ShortInputs \cup LongInputs \cup {UndefinedStr}

InitShell ==
  /\ EnvDefault
  /\ NotifierIdle
  /\ HookIdle
  /\ shContent \in ShellInputs
  /\ shSanitized = NotCalled
  /\ shResanitized = NotCalled
  /\ shEscaped = NotCalled
  /\ pcShell = "called"
  /\ AuxIdle

\* sanitizeNotificationContent(content)
Sanitize ==
  /\ pcShell = "called"
  /\ shSanitized' = sanitizeNotificationContent(shContent)
  /\ pcShell' = "sanitized"
  /\ UNCHANGED <<shContent, shResanitized, shEscaped>>
  /\ UNCHANGED <<envVars, notifierVars, hookVars, auxVars>>

\* sanitizeNotificationContent applied to its own result
SanitizeAgain ==
  /\ pcShell = "sanitized"
  /\ shResanitized' = sanitizeNotificationContent(shSanitized)
  /\ pcShell' = "resanitized"
  /\ UNCHANGED <<shContent, shSanitized, shEscaped>>
  /\ UNCHANGED <<envVars, notifierVars, hookVars, auxVars>>

\* escapeAppleScript(content)
Escape ==
  /\ pcShell # "idle"
  /\ shEscaped = NotCalled
  /\ shEscaped' = escapeAppleScript(shContent)
  /\ UNCHANGED <<shContent, shSanitized, shResanitized, pcShell>>
  /\ UNCHANGED <<envVars, notifierVars, hookVars, auxVars>>

NextShell == Sanitize \/ SanitizeAgain \/ Escape

SpecShell == InitShell /\ [][NextShell]_vars

(***************************************************************************)
(* Claims about the shell executor (checked under SpecShell)               *)
(***************************************************************************)
\* C11: sanitizeNotificationContent is idempotent, also on strings longer
\* than the length limit: sanitize(sanitize(x)) = sanitize(x).
C11_SanitizeIdempotent ==
  shResanitized # NotCalled => shResanitized = shSanitized

C11_Witness ==
  /\ pcShell = "resanitized"
  /\ Len(shContent) > maxLength
  /\ shContent[1] = "SOH"
  /\ Len(shSanitized) = maxLength + 3
  /\ shResanitized = shSanitized

\* C12: sanitizeNotificationContent never lengthens a string, also just over
\* the length limit where the marker is appended.
C12_SanitizeNeverLengthens ==
  (shSanitized # NotCalled /\ shContent # UndefinedStr) =>
    Len(shSanitized) <= Len(shContent)

isControlChar(c) == c \in DOMAIN ControlCharCode

\* what the sanitizer is said to return when exactly the control characters
\* outside allowed are removed: the first maxLength kept characters, in order
keptPrefix(str, allowed) ==
  LET keeps(c) == ~isControlChar(c) \/ c \in allowed
      kept == SelectSeq(str, keeps)
  IN IF Len(kept) > maxLength THEN SubSeq(kept, 1, maxLength) ELSE kept

sanitizedAsSpecified(allowed) ==
  IF shContent = UndefinedStr THEN shSanitized = <<>>
  ELSE /\ \A i \in DOMAIN shSanitized :
            ~isControlChar(shSanitized[i]) \/ shSanitized[i] \in allowed
       /\ LET prefix == keptPrefix(shContent, allowed)
          IN /\ Len(shSanitized) >= Len(prefix)
             /\ SubSeq(shSanitized, 1, Len(prefix)) = prefix

escapeOfChar(c) ==
  CASE c = "\\"  -> <<"\\", "\\">>
    [] c = "\""  -> <<"\\", "\"">>
    [] c = "LF"  -> <<"\\", "n">>
    [] c = "CR"  -> <<"\\", "r">>
    [] c = "TAB" -> <<"\\", "t">>
    [] OTHER     -> <<c>>

RECURSIVE escapesOfRange(_, _, _)
escapesOfRange(str, lo, hi) ==
  IF lo > hi THEN <<>>
  ELSE IF lo = hi THEN escapeOfChar(str[lo])
  ELSE LET mid == (lo + hi) \div 2
       IN escapesOfRange(str, lo, mid) \o escapesOfRange(str, mid + 1, hi)

\* the number of backslashes that immediately precede position i
backslashesBefore(str, i) ==
  LET others == {j \in 1..(i - 1) : str[j] # "\\"}
  IN IF others = {} THEN i - 1
     ELSE i - 1 - (CHOOSE j \in others : \A k \in others : k <= j)

\* C14: escapeAppleScript replaces each backslash, double quote, newline,
\* carriage return and tab by its two-character escape exactly once, leaves
\* the other characters alone, returns '' for a non-string, and so leaves no
\* double quote without an escaping backslash.
C14_EscapeAppleScript ==
  shEscaped # NotCalled =>
    IF shContent = UndefinedStr THEN shEscaped = <<>>
    ELSE /\ shEscaped = escapesOfRange(shContent, 1, Len(shContent))
         /\ \A i \in DOMAIN shEscaped :
              shEscaped[i] = "\"" => backslashesBefore(shEscaped, i) % 2 = 1

C14_Witness ==
  /\ shContent = <<"\\", "\"">>
  /\ shEscaped = <<"\\", "\\", "\\", "\"">>

(***************************************************************************)
(* Either hook run on the sample inputs                                    *)
(***************************************************************************)
InitHooks == InitNotificationHook \/ InitStopHook

NextHooks ==
  \/ NotificationHookMain
  \/ NotificationHookAfterSend
  \/ StopHookMain
  \/ StopHookAfterSend
  \/ NextNotifier

SpecHooks == InitHooks /\ [][NextHooks]_vars

(***************************************************************************)
(* Claims about both hooks (checked under SpecHooks)                       *)
(***************************************************************************)
\* the writes to the debug log of a hook and to the error log
LogKinds == {"debug-log", "error-log"}

\* C15: with debug mode off (no CAT_CCNOTIFY_DEBUG=true, no --debug) no run
\* of either hook does any log-file I/O, on any path.
C15_NoLogIOWhenDebugOff ==
  ~isDebugMode => \A i \in DOMAIN effects : effects[i].kind \notin LogKinds

hookFinished == pc \in {"done", "exited"}

\* C16: a hook process exits with code 0 on every run that completes its flow
\* or exits early, whatever failed on the way; code 1 is left to an error
\* that escapes main's own try/catch.
C16_ExitCodeZero ==
  /\ hookFinished => exitCode = "0"
  /\ exitCode \in {"running", "0"}

C16_Witness ==
  /\ hookFinished
  /\ exitCode = "0"
  /\ sendResult.state = "rejected"
  /\ \E i \in DOMAIN effects : effects[i].kind = "error-log"

soundAttempts == {i \in DOMAIN effects : effects[i].kind \in SoundCommands}

\* the delivery methods whose completion shows something to the user: the
\* external notifiers, the legacy osascript call and sendWithConsole
VisualDeliveryKinds == ExternalNotifiers \cup {"legacy-osascript", "console"}

visualDeliveredBefore(i) ==
  \E j \in 1..(i - 1) : effects[j].kind \in VisualDeliveryKinds /\ effects[j].ok

visualFailedBefore(i) ==
  \E j \in 1..(i - 1) : effects[j].kind \in VisualDeliveryKinds /\ ~effects[j].ok

\* C24: in every hook invocation sound playback is attempted at most once,
\* and only after a visual delivery method has completed successfully; no
\* sound is triggered for a visual attempt that has failed or has not yet
\* finished.
C24_OneSoundAfterVisualSuccess ==
  /\ Cardinality(soundAttempts) <= 1
  /\ \A i \in soundAttempts : visualDeliveredBefore(i) /\ ~visualFailedBefore(i)

ExternalVisualKinds == ExternalNotifiers \cup {"legacy-osascript"}

\* the hook reached its delivery step: the adaptive notifier was called or
\* the legacy osascript command was run
deliveryDispatched ==
  pcN # "idle" \/ \E i \in DOMAIN effects : effects[i].kind = "legacy-osascript"

everyExternalVisualMethodFailed ==
  \A i \in DOMAIN effects : effects[i].kind \in ExternalVisualKinds => ~effects[i].ok

\* the title and message the hook hands on: what the adaptive notifier was
\* given, or the sanitized stop title and message on the legacy path
carriesTitleAndMessage(e) ==
  \/ e.title = nTitle /\ e.message = nMessage
  \/ /\ hookScript = "stop-hook.cjs"
     /\ e.title = sanitizeNotificationContent(notificationTitle)
     /\ e.message = sanitizeNotificationContent(notificationMessage)

consoleLineWritten ==
  \E i \in DOMAIN effects :
    /\ effects[i].kind \in {"console", "hook-console"}
    /\ (effects[i].title # <<>> \/ effects[i].message # <<>>)
    /\ carriesTitleAndMessage(effects[i])

\* C25: for every invocation of the notification hook or the stop hook with
\* non-empty sanitized content that is not skipped, if every external visual
\* method fails (the adaptive notifier's tools and, for the stop hook, the
\* legacy osascript call), the hook still writes a console text line carrying
\* the title and message and finishes without an uncaught error.
C25_ConsoleLineWhenEveryToolFails ==
  (hookFinished /\ deliveryDispatched /\ everyExternalVisualMethodFailed) =>
    /\ consoleLineWritten
    /\ exitCode = "0"

\* the stop hook: alerter exits non-zero, then the legacy osascript fails too
C25_Witness ==
  /\ hookScript = "stop-hook.cjs"
  /\ hookFinished
  /\ sendResult = Resolved(FALSE, "alerter")
  /\ \E i \in DOMAIN effects : effects[i].kind = "legacy-osascript" /\ ~effects[i].ok
  /\ everyExternalVisualMethodFailed
  /\ consoleLineWritten

(***************************************************************************)
(* lib/notification-sender.js                                              *)
(***************************************************************************)
\* execSync(`ps -p ${ppid} -o comm=`) threw (or require is not defined)
PsFailed == <<"ps failed">>

\* detectExecutionEnvironment(): TERM_PROGRAM first, then the name of the
\* parent process; a failing lookup is caught
detectExecutionEnvironment ==
  IF Truthy(env["TERM_PROGRAM"]) /\ env["TERM_PROGRAM"] = "iTerm.app" THEN "iterm2"
  ELSE IF Truthy(env["TERM_PROGRAM"]) /\ env["TERM_PROGRAM"] = "Apple_Terminal" THEN "terminal"
  ELSE IF Truthy(env["TERM_PROGRAM"]) /\ env["TERM_PROGRAM"] = "vscode" THEN "vscode"
  ELSE IF parentComm = PsFailed THEN "unknown"
  ELSE IF includes(parentComm, Chars("iTerm")) THEN "iterm2"
  ELSE IF includes(parentComm, Chars("Terminal")) THEN "terminal"
  ELSE IF includes(parentComm, Chars("code")) \/ includes(parentComm, Chars("Code")) THEN "vscode"
  ELSE "unknown"

\* the methods array of sendNotificationSafely, in source order
safelyMethods ==
  <<"Finder", "Terminal-Safe", "System-Preferences", "Bundle-ID",
    "Notification-Center", "Sound-Workaround", "Basic-Fallback">>

\* the methods array of sendNotificationWithTerminalNotifier, in source
\* order; condition is the environment the method is restricted to
NoCondition == "no condition"

senderMethods ==
  <<[name |-> "iterm2-native",     priority |-> 1, condition |-> "iterm2"],
    [name |-> "terminal-notifier", priority |-> 2, condition |-> NoCondition],
    [name |-> "alerter",           priority |-> 3, condition |-> NoCondition],
    [name |-> "echo",              priority |-> 4, condition |-> "terminal"],
    [name |-> "osascript",         priority |-> 5, condition |-> NoCondition]>>

\* method => !method.condition || method.condition()
conditionHolds(m, environment) ==
  m.condition = NoCondition \/ m.condition = environment

\* insert m into a list sorted by priority, after the entries that compare
\* equal (Array.prototype.sort is stable)
RECURSIVE insertByPriority(_, _)
insertByPriority(m, sorted) ==
  IF sorted = <<>> THEN <<m>>
  ELSE IF m.priority < Head(sorted).priority THEN <<m>> \o sorted
  ELSE <<Head(sorted)>> \o insertByPriority(m, Tail(sorted))

\* .sort((a, b) => a.priority - b.priority)
RECURSIVE sortByPriority(_)
sortByPriority(ms) ==
  IF ms = <<>> THEN <<>>
  ELSE insertByPriority(ms[Len(ms)], sortByPriority(SubSeq(ms, 1, Len(ms) - 1)))

availableMethodsFor(environment) ==
  LET applicable(m) == conditionHolds(m, environment)
  IN sortByPriority(SelectSeq(senderMethods, applicable))

Attempt(name, ok) == [name |-> name, ok |-> ok]

\* sendNotificationWithTerminalNotifier up to the loop over availableMethods
SenderStart ==
  /\ pcSender = "called"
  /\ senderEnvironment' = detectExecutionEnvironment
  /\ availableMethods' = availableMethodsFor(detectExecutionEnvironment)
  /\ methodIndex' = 1
  /\ pcSender' = "loop"
  /\ UNCHANGED <<parentComm, safelyIndex, senderAttempts, senderResult>>
  /\ UNCHANGED <<envVars, notifierVars, hookVars, shellVars, detectorVars, settingsVars>>

\* the method the loop is at
currentMethod == availableMethods[methodIndex]

\* after a method threw: the next method, or `return false` after the last
nextMethodOrFalse ==
  IF methodIndex < Len(availableMethods)
  THEN /\ methodIndex' = methodIndex + 1
       /\ UNCHANGED <<senderResult, pcSender>>
  ELSE /\ senderResult' = "false"
       /\ pcSender' = "returned"
       /\ UNCHANGED methodIndex

\* iterm2-native and echo: the text is written to stdout, execute() returns
\* true and the function returns true
ExecuteStdoutMethod ==
  /\ pcSender = "loop"
  /\ currentMethod.name \in {"iterm2-native", "echo"}
  /\ senderAttempts' = Append(senderAttempts, Attempt(currentMethod.name, TRUE))
  /\ senderResult' = "true"
  /\ pcSender' = "returned"
  /\ UNCHANGED <<parentComm, senderEnvironment, availableMethods, methodIndex, safelyIndex>>
  /\ UNCHANGED <<envVars, notifierVars, hookVars, shellVars, detectorVars, settingsVars>>

\* terminal-notifier and alerter: execFileAsync resolves (return true) or
\* rejects (caught by the loop, which goes on)
ExecuteToolMethod ==
  /\ pcSender = "loop"
  /\ currentMethod.name \in {"terminal-notifier", "alerter"}
  /\ \E ok \in BOOLEAN :
       /\ senderAttempts' = Append(senderAttempts, Attempt(currentMethod.name, ok))
       /\ IF ok
          THEN /\ senderResult' = "true"
               /\ pcSender' = "returned"
               /\ UNCHANGED methodIndex
          ELSE nextMethodOrFalse
  /\ UNCHANGED <<parentComm, senderEnvironment, availableMethods, safelyIndex>>
  /\ UNCHANGED <<envVars, notifierVars, hookVars, shellVars, detectorVars, settingsVars>>

\* osascript: execute() calls sendNotificationSafely
ExecuteOsascriptMethod ==
  /\ pcSender = "loop"
  /\ currentMethod.name = "osascript"
  /\ safelyIndex' = 1
  /\ pcSender' = "safely"
  /\ UNCHANGED <<parentComm, senderEnvironment, availableMethods, methodIndex,
                 senderAttempts, senderResult>>
  /\ UNCHANGED <<envVars, notifierVars, hookVars, shellVars, detectorVars, settingsVars>>

\* one turn of the loop of sendNotificationSafely: executeOsascript resolves
\* (return true) or rejects (next variant; return false after the last).
\* Back in sendNotificationWithTerminalNotifier the value execute() resolved
\* with is not looked at: the loop returns true either way.
SafelyAttempt ==
  /\ pcSender = "safely"
  /\ \E ok \in BOOLEAN :
       /\ senderAttempts' = Append(senderAttempts, Attempt(safelyMethods[safelyIndex], ok))
       /\ IF ok
          THEN /\ senderResult' = "true"
               /\ pcSender' = "returned"
               /\ UNCHANGED safelyIndex
          ELSE IF safelyIndex < Len(safelyMethods)
          THEN /\ safelyIndex' = safelyIndex + 1
               /\ UNCHANGED <<senderResult, pcSender>>
          ELSE /\ senderResult' = "true"
               /\ pcSender' = "returned"
               /\ UNCHANGED safelyIndex
  /\ UNCHANGED <<parentComm, senderEnvironment, availableMethods, methodIndex>>
  /\ UNCHANGED <<envVars, notifierVars, hookVars, shellVars, detectorVars, settingsVars>>

NextSender ==
  \/ SenderStart
  \/ ExecuteStdoutMethod
  \/ ExecuteToolMethod
  \/ ExecuteOsascriptMethod
  \/ SafelyAttempt

\* ---- the terminals the sender is called in -------------------------------
SenderTermPrograms == {Undefined, "iTerm.app", "Apple_Terminal", "vscode", "WezTerm"}

ParentComms ==
  {Chars("iTerm2"), Chars("Terminal"), Chars("Code Helper"), Chars("zsh"), PsFailed}

InitSender ==
  /\ platform = "darwin"
  /\ \E tp \in SenderTermPrograms : env = [CleanEnv EXCEPT !["TERM_PROGRAM"] = tp]
  /\ stdoutIsTTY = "true"
  /\ stdinIsTTY = "true"
  /\ commandsOnPath = {"osascript", "afplay"}
  /\ notificationCapabilities = detectNotificationCapabilities
  /\ terminalInfo = detectTerminalEnvironment
  /\ pcEnv = "constructed"
  /\ NotifierIdle
  /\ HookIdle
  /\ ShellIdle
  /\ parentComm \in ParentComms
  /\ senderEnvironment = "undetected"
  /\ availableMethods = <<>>
  /\ methodIndex = 0
  /\ safelyIndex = 0
  /\ senderAttempts = <<>>
  /\ senderResult = "none"
  /\ pcSender = "called"
  /\ DetectorIdle
  /\ SettingsIdle

SpecSender == InitSender /\ [][NextSender]_vars

(***************************************************************************)
(* Claims about sendNotificationWithTerminalNotifier (under SpecSender)    *)
(***************************************************************************)
methodOfAttempt(name) ==
  IF \E i \in DOMAIN safelyMethods : safelyMethods[i] = name THEN "osascript" ELSE name

priorityOfAttempt(name) ==
  LET m == CHOOSE x \in {senderMethods[i] : i \in DOMAIN senderMethods} :
             x.name = methodOfAttempt(name)
  IN m.priority

applicableMethodNames ==
  {senderMethods[i].name : i \in {j \in DOMAIN senderMethods :
                                    conditionHolds(senderMethods[j], senderEnvironment)}}

someAttemptDelivered == \E i \in DOMAIN senderAttempts : senderAttempts[i].ok

everyApplicableMethodFailed ==
  /\ ~someAttemptDelivered
  /\ \A n \in applicableMethodNames \ {"osascript"} :
       \E i \in DOMAIN senderAttempts : senderAttempts[i].name = n
  /\ \A k \in DOMAIN safelyMethods :
       \E i \in DOMAIN senderAttempts : senderAttempts[i].name = safelyMethods[k]

\* only applicable methods are attempted, in ascending priority, and nothing
\* is attempted after a success
attemptsInPriorityOrder ==
  /\ \A i \in DOMAIN senderAttempts :
       methodOfAttempt(senderAttempts[i].name) \in applicableMethodNames
  /\ \A i, j \in DOMAIN senderAttempts :
       i < j => /\ priorityOfAttempt(senderAttempts[i].name)
                     <= priorityOfAttempt(senderAttempts[j].name)
                /\ ~senderAttempts[i].ok

\* C26: sendNotificationWithTerminalNotifier attempts the applicable methods
\* in ascending priority, stops at the first one that succeeds, and returns
\* true only if some method actually delivered the notification; it returns
\* false exactly when every attempted method, including all seven osascript
\* variants of sendNotificationSafely, failed.
C26_TrueOnlyWhenDelivered ==
  pcSender = "returned" =>
    /\ attemptsInPriorityOrder
    /\ senderResult = "true" => someAttemptDelivered
    /\ senderResult = "false" <=> everyApplicableMethodFailed

(***************************************************************************)
(* lib/simple-parent-detector.js and EnvironmentDetector.detectParentApp   *)
(***************************************************************************)
maxLevels == 15

isWhitespace(c) == c \in {" ", "TAB", "LF", "CR"}

DotApp == Chars(".app")

\* /(\/[^\s]*\.app)/ : where a match that begins at i can end
appMatchEnds(args, i) ==
  {j \in (i + Len(DotApp))..Len(args) :
     /\ args[i] = "/"
     /\ SubSeq(args, j - Len(DotApp) + 1, j) = DotApp
     /\ \A k \in (i + 1)..j : ~isWhitespace(args[k])}

\* args.match(/(\/[^\s]*\.app)/)[1]: the leftmost match, as long as it can
\* be; the empty string stands for no match
appPathOf(args) ==
  LET starts == {i \in DOMAIN args : appMatchEnds(args, i) # {}}
  IN IF starts = {} THEN <<>>
     ELSE LET i == CHOOSE x \in starts : \A y \in starts : x <= y
              ends == appMatchEnds(args, i)
              j == CHOOSE x \in ends : \A y \in ends : y <= x
          IN SubSeq(args, i, j)

\* path.split('/').pop()
lastPathSegment(path) ==
  LET slashes == {i \in DOMAIN path : path[i] = "/"}
  IN IF slashes = {} THEN path
     ELSE LET i == CHOOSE x \in slashes : \A y \in slashes : y <= x
          IN SubSeq(path, i + 1, Len(path))

\* str.replace(pattern, '') with a string pattern: the first occurrence
removeFirst(str, pattern) ==
  LET at == {i \in 1..(Len(str) - Len(pattern) + 1) :
               SubSeq(str, i, i + Len(pattern) - 1) = pattern}
  IN IF at = {} THEN str
     ELSE LET i == CHOOSE x \in at : \A y \in at : x <= y
          IN SubSeq(str, 1, i - 1) \o SubSeq(str, i + Len(pattern), Len(str))

\* getBundleId(appPath): the mdls output, null for '(null)' and on failure
MdlsOutcomes == {"com.googlecode.iterm2", "(null)", "failed"}

getBundleId(outcome) ==
  IF outcome = "failed" THEN "null"
  ELSE IF outcome = "(null)" THEN "null"
  ELSE outcome

\* extractAppFromPath(args), with the pid detectParentApp adds to it
extractAppFromPath(args, outcome, pid) ==
  LET appPath == appPathOf(args)
      appName == removeFirst(lastPathSegment(appPath), DotApp)
  IN [name |-> removeFirst(appName, DotApp), bundleId |-> getBundleId(outcome),
      type |-> "app", pid |-> pid]

UnknownRecord == [name |-> Chars("Unknown"), bundleId |-> "null", type |-> "unknown", pid |-> 0]

\* EnvironmentDetector.identifyTerminalApp(processInfo); NoRecord stands for null
identifyTerminalApp(processInfo) ==
  IF includes(processInfo.args, Chars("iTerm.app"))
  THEN [name |-> Chars("iTerm2"), bundleId |-> "com.googlecode.iterm2",
        type |-> "terminal", pid |-> 0]
  ELSE IF includes(processInfo.args, Chars("Code.app")) \/ includes(processInfo.command, Chars("code"))
  THEN [name |-> Chars("Visual Studio Code"), bundleId |-> "com.microsoft.VSCode",
        type |-> "editor", pid |-> 0]
  ELSE IF includes(processInfo.args, Chars("Terminal.app"))
  THEN [name |-> Chars("Terminal"), bundleId |-> "com.apple.Terminal",
        type |-> "terminal", pid |-> 0]
  ELSE NoRecord

\* processInfo.command.includes on a row without a command column is a TypeError
identifyTerminalAppThrows(processInfo) ==
  /\ ~includes(processInfo.args, Chars("iTerm.app"))
  /\ ~includes(processInfo.args, Chars("Code.app"))
  /\ processInfo.command = UndefinedStr

\* EnvironmentDetector.getFallbackApp()
getFallbackApp ==
  IF terminalInfo.isITerm2
  THEN [name |-> Chars("iTerm2"), bundleId |-> "com.googlecode.iterm2",
        type |-> "terminal", pid |-> 0]
  ELSE IF terminalInfo.isVSCode
  THEN [name |-> Chars("Visual Studio Code"), bundleId |-> "com.microsoft.VSCode",
        type |-> "editor", pid |-> 0]
  ELSE [name |-> Chars("Unknown Terminal"), bundleId |-> "null",
        type |-> "unknown", pid |-> 0]

\* the record a walk that found nothing ends with
notFoundRecord ==
  IF detectorClass = "SimpleParentDetector" THEN UnknownRecord ELSE getFallbackApp

Lookup(pid, outcome) == [pid |-> pid, outcome |-> outcome]

\* return r from detectParentApp (SimpleParentDetector stores it in this.cache)
returnRecord(r) ==
  /\ lastRecord' = r
  /\ firstRecord' = IF detectCalls = 1 THEN r ELSE firstRecord
  /\ cache' = IF detectorClass = "SimpleParentDetector" THEN r ELSE cache
  /\ pcDetector' = "returned"

\* how often detectParentApp is called on one instance, and the largest pid
\* a walk starts from
MaxCalls == 2
MaxStartPid == 18

\* detectParentApp(): the cached record, or the start of the walk
DetectParentAppCall ==
  /\ pcDetector \in {"ready", "returned"}
  /\ detectCalls < MaxCalls
  /\ detectCalls' = detectCalls + 1
  /\ lookedUp' = <<>>
  /\ mdlsOutcome' = "none"
  /\ IF detectorClass = "SimpleParentDetector" /\ cache # NoRecord
     THEN /\ lastRecord' = cache
          /\ pcDetector' = "returned"
          /\ UNCHANGED <<currentPid, level, cache, firstRecord>>
     ELSE /\ currentPid' = startPid
          /\ level' = 0
          /\ pcDetector' = "walking"
          /\ UNCHANGED <<cache, firstRecord, lastRecord>>
  /\ UNCHANGED <<detectorClass, startPid>>
  /\ UNCHANGED <<envVars, notifierVars, hookVars, shellVars, senderVars, settingsVars>>

\* the rows ps can print: command and args
PsRows ==
  {[command |-> Chars("-zsh"), args |-> <<>>],
   [command |-> Chars("login"), args |-> Chars("login -pf u")],
   [command |-> Chars("node"), args |-> Chars("node my.app")],
   [command |-> Chars("code"), args |-> Chars("code .")],
   [command |-> Chars("/A/iTerm.app/C/iTerm2"), args |-> Chars("/A/iTerm.app/C/iTerm2 -x")],
   [command |-> Chars("/S/Terminal.app/C/Terminal"), args |-> Chars("/S/Terminal.app/C/Terminal")],
   [command |-> UndefinedStr, args |-> <<>>]}

\* one turn of the while loop: the ps lookup of currentPid fails, prints no
\* row, or prints a row that is recognised or leads on to its parent pid
WalkLookup ==
  /\ pcDetector = "walking"
  /\ currentPid > 1 /\ level < maxLevels
  /\ \/ \E outcome \in {"failed", "no row"} :
          /\ lookedUp' = Append(lookedUp, Lookup(currentPid, outcome))
          /\ returnRecord(notFoundRecord)
          /\ UNCHANGED <<currentPid, level, mdlsOutcome>>
     \/ \E processInfo \in PsRows, ppid \in {currentPid - 1, 0} :
          /\ lookedUp' = Append(lookedUp, Lookup(currentPid, "row"))
          /\ IF detectorClass = "SimpleParentDetector"
             THEN IF includes(processInfo.args, DotApp) /\ appPathOf(processInfo.args) # <<>>
                  THEN \E outcome \in MdlsOutcomes :
                         /\ mdlsOutcome' = outcome
                         /\ returnRecord(extractAppFromPath(processInfo.args, outcome, currentPid))
                         /\ UNCHANGED <<currentPid, level>>
                  ELSE /\ currentPid' = ppid
                       /\ level' = level + 1
                       /\ UNCHANGED <<mdlsOutcome, cache, firstRecord, lastRecord, pcDetector>>
             ELSE IF identifyTerminalAppThrows(processInfo)
                  THEN /\ returnRecord(getFallbackApp)
                       /\ UNCHANGED <<currentPid, level, mdlsOutcome>>
                  ELSE IF identifyTerminalApp(processInfo) # NoRecord
                  THEN /\ returnRecord(identifyTerminalApp(processInfo))
                       /\ UNCHANGED <<currentPid, level, mdlsOutcome>>
                  ELSE /\ currentPid' = ppid
                       /\ level' = level + 1
                       /\ UNCHANGED <<mdlsOutcome, cache, firstRecord, lastRecord, pcDetector>>
  /\ UNCHANGED <<detectorClass, startPid, detectCalls>>
  /\ UNCHANGED <<envVars, notifierVars, hookVars, shellVars, senderVars, settingsVars>>

\* the while condition is false: nothing was found
WalkEnd ==
  /\ pcDetector = "walking"
  /\ ~(currentPid > 1 /\ level < maxLevels)
  /\ returnRecord(notFoundRecord)
  /\ UNCHANGED <<detectorClass, startPid, currentPid, level, lookedUp, mdlsOutcome, detectCalls>>
  /\ UNCHANGED <<envVars, notifierVars, hookVars, shellVars, senderVars, settingsVars>>

NextDetector ==
  \/ DetectParentAppCall
  \/ WalkLookup
  \/ WalkEnd

\* ---- the detector instances and the process ancestry ---------------------
DetectorClasses == {"SimpleParentDetector", "EnvironmentDetector"}

InitDetector ==
  /\ platform = "darwin"
  /\ \E tp \in TermPrograms : env = [CleanEnv EXCEPT !["TERM_PROGRAM"] = tp]
  /\ stdoutIsTTY = "true"
  /\ stdinIsTTY = "true"
  /\ commandsOnPath = {"osascript", "afplay"}
  /\ notificationCapabilities = detectNotificationCapabilities
  /\ terminalInfo = detectTerminalEnvironment
  /\ pcEnv = "constructed"
  /\ NotifierIdle
  /\ HookIdle
  /\ ShellIdle
  /\ SenderIdle
  /\ detectorClass \in DetectorClasses
  /\ startPid \in {1, 2, MaxStartPid}
  /\ cache = NoRecord
  /\ currentPid = 0
  /\ level = 0
  /\ lookedUp = <<>>
  /\ mdlsOutcome = "none"
  /\ detectCalls = 0
  /\ firstRecord = NoRecord
  /\ lastRecord = NoRecord
  /\ pcDetector = "ready"
  /\ SettingsIdle

SpecDetector == InitDetector /\ [][NextDetector]_vars

(***************************************************************************)
(* Claims about parent-application detection (checked under SpecDetector)  *)
(***************************************************************************)
\* the walk of the current call made no lookup for pid 1 or below, and none
\* after a lookup that failed or printed no row
walkStopsEarly ==
  /\ \A i \in DOMAIN lookedUp : lookedUp[i].pid > 1
  /\ \A i \in DOMAIN lookedUp : i < Len(lookedUp) => lookedUp[i].outcome = "row"

processLookupFailed ==
  lookedUp # <<>> /\ lookedUp[Len(lookedUp)].outcome \in {"failed", "no row"}

bundleIdLookupFailed == mdlsOutcome = "failed"

\* C27: every parent-application ancestry walk terminates after at most 15
\* process-table lookups, stops early when the pid reaches 1 or below or a
\* lookup returns no row, and on any OS-level failure (process lookup or
\* bundle-id lookup) returns the fallback/unknown record without raising.
C27_WalkBoundedFailureGivesFallback ==
  /\ Len(lookedUp) <= 15
  /\ walkStopsEarly
  /\ pcDetector \in {"ready", "walking", "returned"}
  /\ (pcDetector = "returned" /\ (processLookupFailed \/ bundleIdLookupFailed))
       => lastRecord = notFoundRecord

\* C28: parent-application detection is computed once per detector instance:
\* after the first detectParentApp call every later call returns the same
\* record and performs no further process-table lookups, and the cached
\* record is never changed afterwards.
C28_DetectedOncePerInstance ==
  detectCalls >= 2 =>
    /\ lookedUp = <<>>
    /\ pcDetector = "returned"
    /\ lastRecord = firstRecord

(***************************************************************************)
(* scripts/install-hooks.js and scripts/uninstall-hooks.js                 *)
(***************************************************************************)
\* ---- JavaScript objects as their entries in insertion order -------------
hasKey(obj, k) == \E i \in DOMAIN obj : obj[i].key = k

valueOf(obj, k) == obj[CHOOSE i \in DOMAIN obj : obj[i].key = k].value

\* {...obj, [k]: v}: an existing key keeps its place, a new one goes last
setKey(obj, k, v) ==
  IF hasKey(obj, k)
  THEN [i \in DOMAIN obj |-> IF obj[i].key = k THEN [key |-> k, value |-> v] ELSE obj[i]]
  ELSE Append(obj, [key |-> k, value |-> v])

\* delete obj[k]
deleteKey(obj, k) ==
  LET others(e) == e.key # k
  IN SelectSeq(obj, others)

\* ---- the hook groups of a settings file ----------------------------------
notificationHookPath == Chars("/p/hooks/notification-hook.js")
stopHookPath == Chars("/p/hooks/stop-hook.cjs")

CommandHook(command) == [type |-> "command", command |-> command]

\* a hook group; hasHooks is false for a group without a hooks property
HookGroup(hooks) == [matcher |-> "", hasHooks |-> TRUE, hooks |-> hooks]
GroupWithoutHooks == [matcher |-> "", hasHooks |-> FALSE, hooks |-> <<>>]

nodeCommand(path) == Chars("node \"") \o path \o Chars("\"")

newNotificationHook == HookGroup(<<CommandHook(nodeCommand(notificationHookPath))>>)
newStopHook == HookGroup(<<CommandHook(nodeCommand(stopHookPath))>>)

\* hook.hooks && hook.hooks.some(h => h.command && h.command.includes(text))
groupHasCommand(group, text) ==
  /\ group.hasHooks
  /\ \E j \in DOMAIN group.hooks :
       TruthyStr(group.hooks[j].command) /\ includes(group.hooks[j].command, text)

\* (groups || []).some(hook => ...)
someGroupHasCommand(groups, text) ==
  \E i \in DOMAIN groups : groupHasCommand(groups[i], text)

\* existingHooks[event] || []
groupsOrEmpty(hooks, event) ==
  IF hasKey(hooks, event) THEN valueOf(hooks, event) ELSE <<>>

\* getCurrentSettings() of the installer: {} for a missing or unparseable file
getCurrentSettings(file) ==
  IF file.state = "parsed" THEN file.value ELSE EmptySettings

ParsedFile(value) == [state |-> "parsed", value |-> value]

Run(script, outcome, wrote) == [script |-> script, outcome |-> outcome, wrote |-> wrote]

\* how many script runs follow one another, and how many groups an event of
\* the initial file has at most
MaxRuns == 2
MaxGroups == 2

\* a slip in the merge: the cat groups are appended on every run
mergedSettings_AlwaysAppend(currentSettings) ==
  LET existingHooks == IF currentSettings.hasHooks THEN currentSettings.hooks ELSE <<>>
      mergedHooks ==
        setKey(setKey(existingHooks, "Notification",
                      groupsOrEmpty(existingHooks, "Notification")
                        \o <<newNotificationHook>>),
               "Stop",
               groupsOrEmpty(existingHooks, "Stop") \o <<newStopHook>>)
  IN [currentSettings EXCEPT !.hasHooks = TRUE, !.hooks = mergedHooks]

\* the settings installHooks writes
mergedSettings(currentSettings) ==
  LET existingHooks == IF currentSettings.hasHooks THEN currentSettings.hooks ELSE <<>>
      isNotificationHookInstalled ==
        someGroupHasCommand(groupsOrEmpty(existingHooks, "Notification"), notificationHookPath)
      isStopHookInstalled ==
        someGroupHasCommand(groupsOrEmpty(existingHooks, "Stop"), stopHookPath)
      mergedHooks ==
        setKey(setKey(existingHooks, "Notification",
                      groupsOrEmpty(existingHooks, "Notification")
                        \o (IF isNotificationHookInstalled THEN <<>>
                            ELSE <<newNotificationHook>>)),
               "Stop",
               groupsOrEmpty(existingHooks, "Stop")
                 \o (IF isStopHookInstalled THEN <<>> ELSE <<newStopHook>>))
  IN [currentSettings EXCEPT !.hasHooks = TRUE, !.hooks = mergedHooks]

\* installHooks(): getHookPaths throws when a hook script is missing (exit 1,
\* nothing written); otherwise the merged settings are written
installHooks ==
  /\ Len(runs) < MaxRuns
  /\ previousFile' = settingsFile
  /\ IF hookFilesExist
     THEN /\ settingsFile' = ParsedFile(mergedSettings(getCurrentSettings(settingsFile)))
          /\ runs' = Append(runs, Run("install", "ok", TRUE))
     ELSE /\ runs' = Append(runs, Run("install", "failed", FALSE))
          /\ UNCHANGED settingsFile
  /\ UNCHANGED hookFilesExist
  /\ UNCHANGED <<envVars, notifierVars, hookVars, shellVars, senderVars, detectorVars>>

\* hookGroup => !hookGroup.hooks.some(h => h.command && h.command.includes(text))
keepsGroup(group, text) == ~groupHasCommand(group, text)

\* groups.filter(...) throws a TypeError at a group without a hooks property
filterThrows(groups) == \E i \in DOMAIN groups : ~groups[i].hasHooks

filterGroups(groups, text) ==
  LET keep(g) == keepsGroup(g, text)
  IN SelectSeq(groups, keep)

\* the hooks object after the cat groups of one event were filtered out; an
\* event left without groups is deleted
withoutCatGroups(hooks, event, text) ==
  IF ~hasKey(hooks, event) THEN hooks
  ELSE IF filterGroups(valueOf(hooks, event), text) = <<>> THEN deleteKey(hooks, event)
  ELSE setKey(hooks, event, filterGroups(valueOf(hooks, event), text))

NotificationScript == Chars("notification-hook.js")
StopScript == Chars("stop-hook.cjs")

hadNotificationHook(hooks) ==
  hasKey(hooks, "Notification")
    /\ someGroupHasCommand(valueOf(hooks, "Notification"), NotificationScript)

hadStopHook(hooks) ==
  hasKey(hooks, "Stop") /\ someGroupHasCommand(valueOf(hooks, "Stop"), StopScript)

uninstallThrows(hooks) ==
  \/ hasKey(hooks, "Notification") /\ filterThrows(valueOf(hooks, "Notification"))
  \/ hasKey(hooks, "Stop") /\ filterThrows(valueOf(hooks, "Stop"))

\* the settings uninstallHooks writes; an empty hooks object is deleted
settingsWithoutCatHooks(currentSettings) ==
  LET hooks == withoutCatGroups(withoutCatGroups(currentSettings.hooks,
                                                 "Notification", NotificationScript),
                                "Stop", StopScript)
  IN IF hooks = <<>> THEN [currentSettings EXCEPT !.hasHooks = FALSE, !.hooks = <<>>]
     ELSE [currentSettings EXCEPT !.hooks = hooks]

\* uninstallHooks(): nothing to do without a parseable file, a hooks object
\* and a cat hook; a TypeError in a filter ends in the catch (exit 1, nothing
\* written); otherwise the settings without the cat groups are written
uninstallHooks ==
  /\ Len(runs) < MaxRuns
  /\ previousFile' = settingsFile
  /\ IF \/ settingsFile.state # "parsed"
        \/ ~settingsFile.value.hasHooks
        \/ /\ ~hadNotificationHook(settingsFile.value.hooks)
           /\ ~hadStopHook(settingsFile.value.hooks)
     THEN /\ runs' = Append(runs, Run("uninstall", "nothing to uninstall", FALSE))
          /\ UNCHANGED settingsFile
     ELSE IF uninstallThrows(settingsFile.value.hooks)
     THEN /\ runs' = Append(runs, Run("uninstall", "failed", FALSE))
          /\ UNCHANGED settingsFile
     ELSE /\ settingsFile' = ParsedFile(settingsWithoutCatHooks(settingsFile.value))
          /\ runs' = Append(runs, Run("uninstall", "ok", TRUE))
  /\ UNCHANGED hookFilesExist
  /\ UNCHANGED <<envVars, notifierVars, hookVars, shellVars, senderVars, detectorVars>>

NextSettings == installHooks \/ uninstallHooks

\* ---- the settings files the scripts are run on ---------------------------
OtherCommand == Chars("say hi")
OldNotificationCommand == Chars("node /old/notification-hook.js")
OldStopCommand == Chars("node /old/stop-hook.cjs")

NotificationGroups ==
  {HookGroup(<<CommandHook(OtherCommand)>>),
   newNotificationHook,
   HookGroup(<<CommandHook(OldNotificationCommand)>>),
   HookGroup(<<CommandHook(OtherCommand), CommandHook(nodeCommand(notificationHookPath))>>),
   HookGroup(<<CommandHook(UndefinedStr)>>),
   GroupWithoutHooks}

StopGroups ==
  {HookGroup(<<CommandHook(OtherCommand)>>),
   newStopHook,
   HookGroup(<<CommandHook(OldStopCommand)>>)}

SeqsUpTo(S, n) == UNION {[1..k -> S] : k \in 0..n}

HooksObjects ==
  {notification \o stop \o other :
     notification \in {<<>>} \cup {<<[key |-> "Notification", value |-> g]>> :
                                     g \in SeqsUpTo(NotificationGroups, MaxGroups)},
     stop \in {<<>>} \cup {<<[key |-> "Stop", value |-> g]>> : g \in SeqsUpTo(StopGroups, 1)},
     other \in {<<>>, <<[key |-> "PreToolUse",
                         value |-> <<HookGroup(<<CommandHook(OtherCommand)>>)>>]>>}}

OtherKeys == {<<>>, <<[key |-> "model", value |-> "opus"]>>}

SettingsValues ==
  {[other |-> o, hasHooks |-> FALSE, hooks |-> <<>>] : o \in OtherKeys}
    \cup {[other |-> o, hasHooks |-> TRUE, hooks |-> h] : o \in OtherKeys, h \in HooksObjects}

SettingsFiles ==
  {AbsentFile, [state |-> "unparseable", value |-> EmptySettings]}
    \cup {ParsedFile(v) : v \in SettingsValues}

InitSettings ==
  /\ EnvDefault
  /\ NotifierIdle
  /\ HookIdle
  /\ ShellIdle
  /\ SenderIdle
  /\ DetectorIdle
  /\ settingsFile \in SettingsFiles
  /\ previousFile = settingsFile
  /\ hookFilesExist \in BOOLEAN
  /\ runs = <<>>

SpecSettings == InitSettings /\ [][NextSettings]_vars

(***************************************************************************)
(* Claims about the installer and the uninstaller                          *)
(***************************************************************************)
lastRun == runs[Len(runs)]

isPrefix(a, b) == Len(a) <= Len(b) /\ SubSeq(b, 1, Len(a)) = a

keysOf(obj) == [i \in DOMAIN obj |-> obj[i].key]

hooksOf(settings) == IF settings.hasHooks THEN settings.hooks ELSE <<>>

someCommandContains(groups, text) ==
  \E i \in DOMAIN groups : \E j \in DOMAIN groups[i].hooks :
    /\ groups[i].hooks[j].command # UndefinedStr
    /\ includes(groups[i].hooks[j].command, text)

\* the groups of an event after an install: the previous groups in their order,
\* followed by the cat group exactly when no previous command held the path
eventPreservedAndMerged(before, after, event, path, catGroup) ==
  LET old == groupsOrEmpty(before, event)
      new == groupsOrEmpty(after, event)
  IN /\ hasKey(after, event)
     /\ isPrefix(old, new)
     /\ IF someCommandContains(old, path) THEN new = old
        ELSE new = old \o <<catGroup>>

installedOverParseableSettings ==
  /\ runs # <<>>
  /\ lastRun.script = "install"
  /\ lastRun.outcome = "ok"
  /\ previousFile.state = "parsed"

\* C29: an installation over parseable settings keeps every top-level key, every
\* hook event and every existing Notification and Stop group in its original
\* order, appends the cat group of an event only when no existing group of that
\* event has a command containing the hook path, and a second installation
\* right after a first leaves the settings as the first wrote them.
C29_InstallPreservesAndIsIdempotent ==
  installedOverParseableSettings =>
    LET before == hooksOf(previousFile.value)
        after == hooksOf(settingsFile.value)
    IN /\ lastRun.wrote
       /\ settingsFile.state = "parsed"
       /\ settingsFile.value.other = previousFile.value.other
       /\ isPrefix(keysOf(before), keysOf(after))
       /\ \A i \in DOMAIN before :
            before[i].key \notin {"Notification", "Stop"} => after[i] = before[i]
       /\ eventPreservedAndMerged(before, after, "Notification",
                                  notificationHookPath, newNotificationHook)
       /\ eventPreservedAndMerged(before, after, "Stop", stopHookPath, newStopHook)
       /\ (Len(runs) = 2 /\ runs[1].script = "install" /\ runs[1].outcome = "ok")
            => settingsFile = previousFile

\* a second installation over settings that held another top-level key, another
\* hook event and a foreign Notification group before the cat group
C29_Witness ==
  /\ installedOverParseableSettings
  /\ Len(runs) = 2
  /\ runs[1].script = "install"
  /\ runs[1].outcome = "ok"
  /\ settingsFile.value.other # <<>>
  /\ hasKey(settingsFile.value.hooks, "PreToolUse")
  /\ Len(groupsOrEmpty(settingsFile.value.hooks, "Notification")) = 2
  /\ groupsOrEmpty(settingsFile.value.hooks, "Notification")[2] = newNotificationHook
  /\ Len(groupsOrEmpty(settingsFile.value.hooks, "Stop")) = 2

isCatGroup(group) ==
  \E j \in DOMAIN group.hooks :
    /\ group.hooks[j].command # UndefinedStr
    /\ \/ includes(group.hooks[j].command, NotificationScript)
       \/ includes(group.hooks[j].command, StopScript)

containsCatHook(settings) ==
  \E i \in DOMAIN hooksOf(settings) :
    \E k \in DOMAIN hooksOf(settings)[i].value : isCatGroup(hooksOf(settings)[i].value[k])

notCatGroup(group) == ~isCatGroup(group)

\* the hook events with their cat groups taken out; events that held nothing
\* but cat groups are not compared
otherGroupsOf(settings) ==
  LET stripped == [i \in DOMAIN hooksOf(settings) |->
                     [key |-> hooksOf(settings)[i].key,
                      value |-> SelectSeq(hooksOf(settings)[i].value, notCatGroup)]]
      nonEmpty(e) == e.value # <<>>
  IN SelectSeq(stripped, nonEmpty)

\* C30: run on parseable settings that contain a cat hook, the uninstaller
\* completes successfully and writes settings without any group whose command
\* contains notification-hook.js or stop-hook.cjs, every other group, event and
\* top-level key unchanged; run on settings without a cat hook it writes
\* nothing.
C30_UninstallRemovesExactlyTheCatHooks ==
  (runs # <<>> /\ lastRun.script = "uninstall") =>
    IF previousFile.state = "parsed" /\ containsCatHook(previousFile.value)
    THEN /\ lastRun.outcome = "ok"
         /\ lastRun.wrote
         /\ ~containsCatHook(settingsFile.value)
         /\ otherGroupsOf(settingsFile.value) = otherGroupsOf(previousFile.value)
         /\ settingsFile.value.other = previousFile.value.other
    ELSE /\ ~lastRun.wrote
         /\ settingsFile = previousFile

====
